---- MODULE Spec2Model ----
(***************************************************************************)
(* MinimaJS hook runtime, renderer, reconciler and scheduler.              *)
(*                                                                         *)
(* The model follows lib/minima-core.js (the core build) and the "Full"    *)
(* section of lib/minima-devtools.js (the full build).  The variable       *)
(* `build` says which of the two is running.  Every handler of the         *)
(* program (render, an event listener, the scheduled flush callback) is    *)
(* one action; the synchronous call tree below it is a chain of operators  *)
(* over a machine record `m` that carries the module-level state, the DOM  *)
(* and the exception flag.                                                 *)
(***************************************************************************)
EXTENDS Integers, Sequences, FiniteSets, TLC

\* ------------------------------------------------------------------ bounds
\* DOM nodes that may exist (attached or detached) in one run
MaxNodes == 9
\* largest value a state cell may hold
MaxVal == 4
\* hook cells one component may hold
MaxHooks == 4
\* callbacks the batch system may hold between two flushes
MaxPending == 2
\* beforeEach guards an application registers
MaxGuards == 2
\* different props objects the application passes to memo
MaxMemoKeys == 103

\* ------------------------------------------------------------- JS values
\* null / undefined where a component is expected (currentComponent = null)
Null == "null"
\* undefined state value
Undef == -1

\* ----------------------------------------------------------------- VNodes
PropNames == {"onClick", "id", "key"}
NoProps == [p \in PropNames |-> ""]
VNull == [kind |-> "null", type |-> "", val |-> 0, props |-> NoProps,
          children |-> <<>>]
VText(v) == [kind |-> "text", type |-> "", val |-> v, props |-> NoProps,
             children |-> <<>>]

\* createElement(type, props, ...children): { type, props: {...props, children} }
createElement(type, props, children) ==
    [kind |-> "node", type |-> type, val |-> 0, props |-> props,
     children |-> children]

\* vnode.key: props?.key || null ("" stands for null)
KeyOf(v) == IF v.kind = "node" THEN v.props["key"] ELSE ""

\* the component functions of the application under test
CompIds == {"Counter", "Fx", "Bad", "Parent", "Two", "Total"}
IsFunction(type) == type \in CompIds

\* !vnode
Falsy(v) == v.kind = "null" \/ (v.kind = "text" /\ v.val = 0)
\* typeof vnode === 'string' || typeof vnode === 'number'
IsText(v) == v.kind = "text"
\* children[i], undefined beyond the end
ChildAt(cs, i) == IF i >= 1 /\ i <= Len(cs) THEN cs[i] ELSE VNull
\* Object.keys(props) without 'children'
Keys(props) == {k \in PropNames : props[k] # ""}
IsEvent(k) == k = "onClick"

\* -------------------------------------------------------------------- DOM
\* node 1 is the container passed to render(); parent 0 is null
Container == 1
NoNode == 0
NewNode(tag, text) ==
    [tag |-> tag, text |-> text, parent |-> NoNode, kids |-> <<>>,
     attrs |-> NoProps, listeners |-> {}]
InitDom == << NewNode("#container", 0) >>

IndexOf(s, x) == IF \E i \in 1..Len(s) : s[i] = x
                 THEN CHOOSE i \in 1..Len(s) : s[i] = x ELSE 0
\* container.childNodes[index]; NoNode when undefined
ChildNode(dom, p, index) ==
    IF p # NoNode /\ index >= 1 /\ index <= Len(dom[p].kids)
    THEN dom[p].kids[index] ELSE NoNode

Detach(dom, n) ==
    IF dom[n].parent = NoNode THEN dom
    ELSE [dom EXCEPT ![dom[n].parent].kids = SelectSeq(@, LAMBDA y : y # n), ![n].parent = NoNode]

\* parent.appendChild(n): n leaves its old parent first
appendChild(dom, p, n) ==
    LET d == Detach(dom, n)
    IN [d EXCEPT ![p].kids = Append(@, n), ![n].parent = p]

\* parent.removeChild(n)
removeChild(dom, p, n) == Detach(dom, n)

\* parent.replaceChild(new, old)
replaceChild(dom, p, new, old) ==
    IF new = old THEN dom
    ELSE LET d == Detach(dom, new)
             i == IndexOf(d[p].kids, old)
         IN [d EXCEPT ![p].kids = [@ EXCEPT ![i] = new],
                      ![new].parent = p,
                      ![old].parent = NoNode]

RECURSIVE Attached(_, _)
\* n is in the document: its ancestor chain ends at the container
Attached(dom, n) ==
    IF n = Container THEN TRUE
    ELSE IF n = NoNode \/ dom[n].parent = NoNode THEN FALSE
    ELSE Attached(dom, dom[n].parent)

\* ------------------------------------------------------ module state
\* a hook cell: {} | { state } | { deps, cleanup }
NoDeps == [def |-> FALSE, arr |-> <<>>]
Deps(arr) == [def |-> TRUE, arr |-> arr]
\* `seen` is not a field of the program: it remembers the deps argument of
\* the most recent useEffect call on the cell, for the properties below
\* `value` is the cell of useMemo, a string, "" for undefined
EmptyHook == [state |-> Undef, deps |-> NoDeps, cleanup |-> FALSE, seen |-> NoDeps,
              value |-> ""]

\* components.get(comp) for a function never rendered: no entry
NoEntry == [has |-> FALSE, element |-> NoNode, oldVNode |-> VNull,
            props |-> NoProps, hooks |-> <<>>, cleanup |-> FALSE]

Range(s) == {s[i] : i \in 1..Len(s)}

\* const v = e; B(v): e is evaluated once and its value named
Bind(e, B(_)) == CHOOSE r \in {B(v) : v \in {e}} : TRUE

\* one record per step of the running handler, in execution order
LogInfo(m, ev, comp, val, info) ==
    [m EXCEPT !.log = Append(@, [ev |-> ev, comp |-> comp, val |-> val,
                                 info |-> info])]
Log(m, ev, comp, val) == LogInfo(m, ev, comp, val, <<>>)
\* an exception starts to propagate; nothing catches it in either build
Throw(m, why) == [Log(m, "throw", why, 0) EXCEPT !.threw = TRUE]

\* -------------------------------------------------------------- scheduler
\* renderQueue.add(component); the first call arms the flush callback
scheduleRender(m, component) ==
    LET q == IF component \in Range(m.renderQueue) THEN m.renderQueue
             ELSE Append(m.renderQueue, component)
        m1 == Log([m EXCEPT !.renderQueue = q], "schedule", component, 0)
    IN IF ~m.isRendering
       THEN [m1 EXCEPT !.isRendering = TRUE, !.armed = @ + 1]
       ELSE m1

\* ------------------------------------------------------------------ hooks
\* the setter closure of cell (owner, idx); newState is a value
\* (fn = FALSE) or the updater v => v + by (fn = TRUE)
setState(m, owner, idx, newState) ==
    LET hook == m.components[owner].hooks[idx]
        value == IF newState.fn THEN hook.state + newState.by ELSE newState.by
    IN IF m.threw THEN m
       ELSE IF hook.state # value
       THEN scheduleRender(
              LogInfo([m EXCEPT !.components[owner].hooks[idx].state = value],
                      "setState", owner, value, [idx |-> idx]),
              m.currentComponent)
       ELSE m

\* a useState that keeps every state of a component in its first cell
useStateCore_sharedCell(m, initial) ==
    IF m.currentComponent = Null
    THEN [m |-> Throw(m, "useState: outside component"), value |-> Undef, idx |-> 0,
          owner |-> Null]
    ELSE LET comp == m.currentComponent
             hooks == m.components[comp].hooks
             hooks1 == IF hooks = <<>>
                       THEN << [EmptyHook EXCEPT !.state = initial] >>
                       ELSE hooks
             m1 == [m EXCEPT !.hookIndex = 1, !.components[comp].hooks = hooks1]
         IN [m |-> LogInfo(m1, "useState", comp, hooks1[1].state,
                           [idx |-> 1, fresh |-> hooks = <<>>,
                            stored |-> IF hooks = <<>> THEN Undef
                                       ELSE hooks[1].state]),
             value |-> hooks1[1].state, idx |-> 1, owner |-> comp]

\* core useState: returns [m, value]; the setter closes over the cell
\* (owner, idx) and is setState(_, owner, idx, _)
useStateCore(m, initial) ==
    IF m.currentComponent = Null
    THEN [m |-> Throw(m, "useState: outside component"), value |-> Undef, idx |-> 0,
          owner |-> Null]
    ELSE LET comp == m.currentComponent
             idx == m.hookIndex + 1
             hooks == m.components[comp].hooks
             hooks1 == IF idx > Len(hooks)
                       THEN Append(hooks, [EmptyHook EXCEPT !.state = initial])
                       ELSE hooks
             m1 == [m EXCEPT !.hookIndex = idx, !.components[comp].hooks = hooks1]
         IN [m |-> LogInfo(m1, "useState", comp, hooks1[idx].state,
                           [idx |-> idx, fresh |-> idx > Len(hooks),
                            stored |-> IF idx > Len(hooks) THEN Undef
                                       ELSE hooks[idx].state]),
             value |-> hooks1[idx].state, idx |-> idx, owner |-> comp]

\* full build: initHook(name)
initHook(m, name) ==
    IF m.currentComponent = Null
    THEN [m |-> Throw(m, name), idx |-> 0]
    ELSE LET comp == m.currentComponent
             idx == m.hookIndex + 1
             hooks == m.components[comp].hooks
             hooks1 == IF idx > Len(hooks) THEN Append(hooks, EmptyHook) ELSE hooks
         IN [m |-> [m EXCEPT !.hookIndex = idx, !.components[comp].hooks = hooks1],
             idx |-> idx]

\* full build useState
useStateFull(m, initial) ==
    Bind(initHook(m, "useState: outside component"), LAMBDA h :
      IF h.m.threw THEN [m |-> h.m, value |-> Undef, idx |-> 0, owner |-> Null]
      ELSE LET comp == m.currentComponent
               v == IF h.m.components[comp].hooks[h.idx].state = Undef
                    THEN initial
                    ELSE h.m.components[comp].hooks[h.idx].state
           IN [m |-> LogInfo([h.m EXCEPT !.components[comp].hooks[h.idx].state = v],
                             "useState", comp, v,
                             [idx |-> h.idx,
                              fresh |-> h.idx > Len(m.components[comp].hooks),
                              stored |-> h.m.components[comp].hooks[h.idx].state]),
               value |-> v, idx |-> h.idx, owner |-> comp])

useState(m, initial) ==
    IF m.build = "core" THEN useStateCore(m, initial) ELSE useStateFull(m, initial)

\* the effect function of a component: what it does when invoked.
\*   act = "set":  calls the setter of cell (owner, idx) with the value `to`
\*   act = "set2": then also the setter of cell (owner, idx2) with `to2`
\*   ret:          it returns a cleanup function

\* hook.cleanup = effect()
RunEffect(m, comp, idx, effect) ==
    [(IF effect.act = "set"
      THEN setState(Log(m, "effect", comp, idx), effect.owner, effect.idx,
                    [fn |-> FALSE, by |-> effect.to])
      ELSE IF effect.act = "set2"
      THEN setState(setState(Log(m, "effect", comp, idx), effect.owner, effect.idx,
                             [fn |-> FALSE, by |-> effect.to]),
                    effect.owner, effect.idx2, [fn |-> FALSE, by |-> effect.to2])
      ELSE Log(m, "effect", comp, idx))
       EXCEPT !.components[comp].hooks[idx].cleanup = effect.ret]

\* if (hook.cleanup) hook.cleanup()
RunCleanup(m, comp, idx) ==
    IF m.components[comp].hooks[idx].cleanup THEN Log(m, "cleanup", comp, idx) ELSE m

\* a comparison that looks at the lengths only
depsChanged_lengthsOnly(hookDeps, deps) ==
    \/ ~hookDeps.def
    \/ ~deps.def
    \/ Len(deps.arr) # Len(hookDeps.arr)

\* core: !hook.deps || !deps || lengths differ || some element differs
depsChanged(hookDeps, deps) ==
    \/ ~hookDeps.def
    \/ ~deps.def
    \/ Len(deps.arr) # Len(hookDeps.arr)
    \/ \E i \in 1..Len(deps.arr) : deps.arr[i] # hookDeps.arr[i]

\* full: depsEqual(a, b)
depsEqual(a, b) ==
    IF ~a.def \/ ~b.def THEN a.def = b.def
    ELSE IF Len(a.arr) # Len(b.arr) THEN FALSE
    ELSE \A i \in 1..Len(a.arr) : a.arr[i] = b.arr[i]

\* the call useEffect(effect, deps) reaches the cell (comp, idx): noted in the
\* log with what the cell held when the call was made
EffectCall(m, comp, idx, deps, first) ==
    LogInfo([m EXCEPT !.components[comp].hooks[idx].seen = deps],
            "useEffect", comp, idx,
            [prev |-> m.components[comp].hooks[idx].seen, deps |-> deps,
             had |-> m.components[comp].hooks[idx].cleanup, first |-> first])

useEffectCore(m, effect, deps) ==
    IF m.threw THEN m
    ELSE IF m.currentComponent = Null THEN Throw(m, "useEffect: outside component")
    ELSE LET comp == m.currentComponent
             idx == m.hookIndex + 1
             hooks == m.components[comp].hooks
             hooks1 == IF idx > Len(hooks) THEN Append(hooks, EmptyHook) ELSE hooks
             m1 == EffectCall([m EXCEPT !.hookIndex = idx,
                                        !.components[comp].hooks = hooks1],
                              comp, idx, deps, idx > Len(hooks))
         IN IF depsChanged(hooks1[idx].deps, deps)
            THEN [RunEffect(RunCleanup(m1, comp, idx), comp, idx, effect)
                    EXCEPT !.components[comp].hooks[idx].deps = deps]
            ELSE m1

useEffectFull(m, effect, deps) ==
    IF m.threw THEN m
    ELSE Bind(initHook(m, "useEffect: outside component"), LAMBDA h :
           IF h.m.threw THEN h.m
           ELSE Bind(EffectCall(h.m, m.currentComponent, h.idx, deps,
                                h.idx > Len(m.components[m.currentComponent].hooks)),
                     LAMBDA m1 :
             [(IF ~depsEqual(m1.components[m.currentComponent].hooks[h.idx].deps, deps)
               THEN [RunEffect(RunCleanup(m1, m.currentComponent, h.idx),
                               m.currentComponent, h.idx, effect)
                       EXCEPT !.components[m.currentComponent].hooks[h.idx].deps = deps]
               ELSE m1)
                EXCEPT !.components[m.currentComponent].cleanup = TRUE]))

useEffect(m, effect, deps) ==
    IF m.build = "core" THEN useEffectCore(m, effect, deps)
    ELSE useEffectFull(m, effect, deps)

\* full build useMemo(factory, deps); `result` is what factory() returns when
\* it is invoked.  The call is noted in the log with the deps of the previous
\* call on the cell, whether factory was invoked, and the value returned
useMemo(m, result, deps) ==
    IF m.threw THEN [m |-> m, value |-> ""]
    ELSE Bind(initHook(m, "useMemo: outside component"), LAMBDA h :
           IF h.m.threw THEN [m |-> h.m, value |-> ""]
           ELSE Bind(h.m.components[m.currentComponent].hooks[h.idx], LAMBDA hook :
                  Bind(IF ~depsEqual(hook.deps, deps)
                       THEN [hook EXCEPT !.value = result, !.deps = deps]
                       ELSE hook, LAMBDA hook1 :
                    [m |-> LogInfo(
                             [h.m EXCEPT !.components[m.currentComponent].hooks[h.idx] =
                                            [hook1 EXCEPT !.seen = deps]],
                             "useMemo", m.currentComponent, h.idx,
                             [first |-> h.idx > Len(m.components[m.currentComponent].hooks),
                              prev |-> hook.seen, deps |-> deps,
                              invoked |-> ~depsEqual(hook.deps, deps),
                              result |-> result, value |-> hook1.value]),
                     value |-> hook1.value])))

\* ------------------------------------------------- component functions
\* Counter: const [v, setV] = useState(0);
\*          h('button', { onClick: () => { setV(x => x+1) three times } }, v)
Counter(m, props) ==
    Bind(useState(m, 0), LAMBDA s :
      [m |-> s.m,
       out |-> createElement("button", [NoProps EXCEPT !.onClick = "inc3"],
                             << VText(s.value) >>)])

\* Fx: const [n, setN] = useState(0);
\*     useEffect(() => { if (n < 2) setN(n + 1); return cleanup }, [n]);
\*     h('span', {}, n)
Fx(m, props) ==
    Bind(useState(m, 0), LAMBDA s :
      [m |-> useEffect(s.m,
                       [act |-> IF s.value < 2 THEN "set" ELSE "none",
                        owner |-> s.owner, idx |-> s.idx, to |-> s.value + 1,
                        ret |-> TRUE],
                       Deps(<< s.value >>)),
       out |-> createElement("span", NoProps, << VText(s.value) >>)])

\* Bad: const [n, setN] = useState(0);
\*      useEffect(() => { setN(1) }, []);
\*      if (n >= 1) throw new Error('bad');  h('p', {}, n)
Bad(m, props) ==
    Bind(useState(m, 0), LAMBDA s :
      Bind(useEffect(s.m,
                     [act |-> "set", owner |-> s.owner, idx |-> s.idx, to |-> 1,
                      ret |-> FALSE],
                     Deps(<<>>)), LAMBDA e :
        IF e.threw THEN [m |-> e, out |-> VNull]
        ELSE IF s.value >= 1 THEN [m |-> Throw(e, "bad"), out |-> VNull]
        ELSE [m |-> e, out |-> createElement("p", NoProps, << VText(s.value) >>)]))

\* Parent: const [open, setOpen] = useState(0);
\*         useEffect(() => { setOpen(1) }, []);
\*         h('div', { id: props.id }, ...(open ? [h(Fx)] : []))
Parent(m, props) ==
    Bind(useState(m, 0), LAMBDA s :
      [m |-> useEffect(s.m,
                       [act |-> "set", owner |-> s.owner, idx |-> s.idx, to |-> 1,
                        ret |-> FALSE],
                       Deps(<<>>)),
       out |-> createElement("div", [NoProps EXCEPT !.id = props.id],
                  IF s.value = 0 THEN <<>>
                  ELSE << createElement("Fx", NoProps, <<>>) >>)])

\* Two: const [a, setA] = useState(0);
\*      const [b, setB] = useState(0);
\*      useEffect(() => { setA(1); setB(2) }, []);
\*      useEffect(() => {});
\*      useEffect(() => { if (a === 1) setA(undefined) }, [a]);
\*      h('i', {})
Two(m, props) ==
    Bind(useState(m, 0), LAMBDA a :
      Bind(useState(a.m, 0), LAMBDA b :
        [m |-> useEffect(
                 useEffect(
                   useEffect(b.m, [act |-> "set2", owner |-> a.owner, idx |-> a.idx,
                                   to |-> 1, idx2 |-> b.idx, to2 |-> 2,
                                   ret |-> FALSE],
                             Deps(<<>>)),
                   [act |-> "none", ret |-> FALSE], NoDeps),
                 [act |-> IF a.value = 1 THEN "set" ELSE "none", owner |-> a.owner,
                  idx |-> a.idx, to |-> Undef, ret |-> FALSE],
                 Deps(<< a.value >>)),
         out |-> createElement("i", NoProps, <<>>)]))

\* Total (full build): const label = useMemo(() => props.id, [props.id]);
\*                     const title = useMemo(() => props.id);
\*                     h('b', { id: label })
Total(m, props) ==
    Bind(useMemo(m, props.id, Deps(<< props.id >>)), LAMBDA label :
      Bind(useMemo(label.m, props.id, NoDeps), LAMBDA title :
        [m |-> title.m,
         out |-> createElement("b", [NoProps EXCEPT !.id = label.value], <<>>)]))

\* comp(props): the call of a component function
Call(m, comp, props) ==
    Bind(Bind(LogInfo(m, "enter", comp, 0, [props |-> props]), LAMBDA e :
           CASE comp = "Counter" -> Counter(e, props)
             [] comp = "Fx" -> Fx(e, props)
             [] comp = "Bad" -> Bad(e, props)
             [] comp = "Two" -> Two(e, props)
             [] comp = "Total" -> Total(e, props)
             [] OTHER -> Parent(e, props)), LAMBDA r :
      IF r.m.threw THEN r ELSE [m |-> Log(r.m, "exit", comp, 0), out |-> r.out])

\* --------------------------------------------------------------- renderer
TypeOf(v) == IF v.kind = "node" THEN v.type ELSE "undefined"

\* document.createElement / document.createTextNode
Alloc(m, tag, text) ==
    [m |-> [m EXCEPT !.dom = Append(@, NewNode(tag, text))],
     node |-> Len(m.dom) + 1]

DomLog(m, d) == Log([m EXCEPT !.dom = d], "dom", "", 0)

\* an updateProps that writes every new prop, changed or not
updateProps_writeAll(m, element, oldProps, newProps) ==
    IF m.threw \/ Keys(oldProps) \cup Keys(newProps) = {} THEN m
    ELSE IF element = NoNode THEN Throw(m, "TypeError")
    ELSE DomLog(m, [m.dom EXCEPT
           ![element].listeners =
              (@ \ {<<k, oldProps[k]>> : k \in {j \in Keys(oldProps) : IsEvent(j)}})
                \cup {<<k, newProps[k]>> : k \in {j \in Keys(newProps) : IsEvent(j)}},
           ![element].attrs =
              [k \in PropNames |-> IF IsEvent(k) THEN @[k] ELSE newProps[k]]])

\* updateProps(element, oldProps, newProps)
updateProps(m, element, oldProps, newProps) ==
    LET removed == {k \in Keys(oldProps) : k \notin Keys(newProps)}
        changed == {k \in Keys(newProps) : oldProps[k] # newProps[k]}
    IN IF m.threw \/ removed \cup changed = {} THEN m
       ELSE IF element = NoNode THEN Throw(m, "TypeError")
       ELSE LET n == m.dom[element]
                ls == (n.listeners
                         \ {<<k, oldProps[k]>> : k \in {j \in removed \cup changed : IsEvent(j)}})
                      \cup {<<k, newProps[k]>> : k \in {j \in changed : IsEvent(j)}}
                as == [k \in PropNames |->
                         IF IsEvent(k) THEN n.attrs[k]
                         ELSE IF k \in removed THEN ""
                         ELSE IF k \in changed THEN newProps[k]
                         ELSE n.attrs[k]]
            IN DomLog(m, [m.dom EXCEPT ![element].listeners = ls,
                                       ![element].attrs = as])

RECURSIVE createDOMElement(_, _), renderFunction(_, _), MountChildren(_, _, _, _),
          FirstMount(_, _)

\* (vnode.props.children || []).forEach(child => child != null && appendChild(...))
MountChildren(m, element, children, i) ==
    IF m.threw \/ i > Len(children) THEN m
    ELSE IF children[i].kind = "null" THEN MountChildren(m, element, children, i + 1)
    ELSE Bind(createDOMElement(m, children[i]), LAMBDA c :
           IF c.m.threw THEN c.m
           ELSE MountChildren([c.m EXCEPT !.dom = appendChild(@, element, c.node)],
                              element, children, i + 1))

createDOMElement(m, vnode) ==
    IF m.threw THEN [m |-> m, node |-> NoNode]
    ELSE IF IsText(vnode) THEN Alloc(m, "#text", vnode.val)
    ELSE IF vnode.kind = "null" THEN [m |-> Throw(m, "TypeError"), node |-> NoNode]
    ELSE IF IsFunction(vnode.type) THEN renderFunction(m, vnode)
    ELSE Bind(Alloc(m, vnode.type, 0), LAMBDA a :
           [m |-> MountChildren(updateProps(a.m, a.node, NoProps, vnode.props),
                                a.node, vnode.children, 1),
            node |-> a.node])

\* renderFunction after rendered = comp(vnode.props): r = [m, out]
FirstMount(r, comp) ==
    IF r.m.components[comp].element # NoNode THEN r.m
    ELSE Bind(createDOMElement(r.m, r.out), LAMBDA c :
           IF c.m.threw THEN c.m
           ELSE [c.m EXCEPT !.components[comp].element = c.node,
                            !.components[comp].oldVNode = r.out])

renderFunction(m, vnode) ==
    Bind(Call(Log([m EXCEPT !.currentComponent = vnode.type, !.hookIndex = 0,
                            !.components[vnode.type] =
                               IF @.has THEN @
                               ELSE [NoEntry EXCEPT !.has = TRUE,
                                                    !.props = vnode.props]],
                  "mount", vnode.type, 0),
              vnode.type, vnode.props), LAMBDA r :
      IF r.m.threw THEN [m |-> r.m, node |-> NoNode]
      ELSE Bind(FirstMount(r, vnode.type), LAMBDA m2 :
             IF m2.threw THEN [m |-> m2, node |-> NoNode]
             ELSE [m |-> [m2 EXCEPT !.currentComponent = m.currentComponent,
                                    !.hookIndex = m.hookIndex],
                   node |-> m2.components[vnode.type].element]))

\* ------------------------------------------------------------- reconciler

\* node.textContent = value
SetTextContent(m, node, value) ==
    IF m.dom[node].tag = "#text"
    THEN DomLog(m, [m.dom EXCEPT ![node].text = value])
    ELSE LET cleared == [i \in 1..Len(m.dom) |->
                           IF m.dom[i].parent = node
                           THEN [m.dom[i] EXCEPT !.parent = NoNode]
                           ELSE IF i = node THEN [m.dom[i] EXCEPT !.kids = <<>>]
                           ELSE m.dom[i]]
         IN Bind(Alloc([m EXCEPT !.dom = cleared], "#text", value), LAMBDA a :
              DomLog(a.m, appendChild(a.m.dom, node, a.node)))

RECURSIVE diffCore(_, _, _, _, _), DiffChildrenCore(_, _, _, _, _)

\* for (let i = 0; i < maxChildren; i++) diff(oldChildren[i], newChildren[i], node, i)
DiffChildrenCore(m, oldChildren, newChildren, node, i) ==
    IF m.threw \/ (i > Len(oldChildren) /\ i > Len(newChildren)) THEN m
    ELSE DiffChildrenCore(
           diffCore(m, ChildAt(oldChildren, i), ChildAt(newChildren, i), node, i),
           oldChildren, newChildren, node, i + 1)

\* container.appendChild(createDOMElement(newVNode))
AppendNew(m, newVNode, container) ==
    IF container = NoNode THEN Throw(m, "TypeError")
    ELSE Bind(createDOMElement(m, newVNode), LAMBDA c :
           IF c.m.threw THEN c.m
           ELSE DomLog(c.m, appendChild(c.m.dom, container, c.node)))

\* container.replaceChild(createDOMElement(newVNode), container.childNodes[index])
ReplaceWithNew(m, newVNode, container, index) ==
    IF container = NoNode THEN Throw(m, "TypeError")
    ELSE Bind(createDOMElement(m, newVNode), LAMBDA c :
           IF c.m.threw THEN c.m
           ELSE IF ChildNode(c.m.dom, container, index) = NoNode
           THEN Throw(c.m, "TypeError")
           ELSE DomLog(c.m, replaceChild(c.m.dom, container, c.node,
                                         ChildNode(c.m.dom, container, index))))

\* container.removeChild(container.childNodes[index])
RemoveAt(m, container, index) ==
    IF ChildNode(m.dom, container, index) = NoNode THEN Throw(m, "TypeError")
    ELSE DomLog(m, removeChild(m.dom, container, ChildNode(m.dom, container, index)))

\* if (oldVNode !== newVNode) container.childNodes[index].textContent = newVNode
UpdateText(m, oldVNode, newVNode, container, index) ==
    IF oldVNode = newVNode THEN m
    ELSE IF ChildNode(m.dom, container, index) = NoNode THEN Throw(m, "TypeError")
    ELSE SetTextContent(m, ChildNode(m.dom, container, index), newVNode.val)

\* a call of diff that started from m0 returns with r: noted in the log with
\* the node at container.childNodes[index] before and after, the number of
\* nodes that existed before, and the length of the log at the call
Diffed(m0, r, oldVNode, newVNode, container, index) ==
    IF r.threw \/ m0.threw THEN r
    ELSE LogInfo(r, "diffed", "", index,
                 [old |-> oldVNode, new |-> newVNode, container |-> container,
                  before |-> ChildNode(m0.dom, container, index),
                  after |-> ChildNode(r.dom, container, index),
                  len |-> Len(m0.dom), from |-> Len(m0.log)])

\* core diff(oldVNode, newVNode, container, index); index counts from 1 here
diffCore(m, oldVNode, newVNode, container, index) ==
    Diffed(m,
      IF m.threw THEN m
      ELSE IF Falsy(newVNode) /\ ~Falsy(oldVNode) THEN RemoveAt(m, container, index)
      ELSE IF ~Falsy(newVNode) /\ Falsy(oldVNode) THEN AppendNew(m, newVNode, container)
      ELSE IF oldVNode.kind = "null" \/ newVNode.kind = "null" THEN Throw(m, "TypeError")
      ELSE IF TypeOf(oldVNode) # TypeOf(newVNode)
      THEN ReplaceWithNew(m, newVNode, container, index)
      ELSE IF IsText(newVNode) THEN UpdateText(m, oldVNode, newVNode, container, index)
      ELSE IF container = NoNode THEN Throw(m, "TypeError")
      ELSE DiffChildrenCore(
             updateProps(m, ChildNode(m.dom, container, index),
                         oldVNode.props, newVNode.props),
             oldVNode.children, newVNode.children,
             ChildNode(m.dom, container, index), 1),
      oldVNode, newVNode, container, index)

\* full build: comp.cleanup = () => comp.hooks?.forEach(h => h.cleanup?.())
RECURSIVE CompCleanup(_, _, _)
CompCleanup(m, comp, i) ==
    IF i > Len(m.components[comp].hooks) THEN m
    ELSE CompCleanup(RunCleanup(m, comp, i), comp, i + 1)

\* full build removeNode(oldVNode, container, index)
removeNode(m, oldVNode, container, index) ==
    Bind(RemoveAt(m, container, index), LAMBDA m1 :
      IF ~m1.threw /\ IsFunction(TypeOf(oldVNode))
           /\ m1.components[oldVNode.type].cleanup
      THEN CompCleanup(m1, oldVNode.type, 1)
      ELSE m1)

\* full build diffChildren: groupChildren returns { keyed, keyless } but the
\* caller destructures { oldKeyed, oldKeyless }: both are undefined and
\* processKeyedChildren throws on oldKeyed.keys()
diffChildren(m, parent, oldChildren, newChildren) ==
    IF m.threw THEN m ELSE Throw(m, "TypeError")

\* full build diff(oldVNode, newVNode, container, index); its addNode,
\* replaceNode and updateTextNode hold the statements of the core diff
diffFull(m, oldVNode, newVNode, container, index) ==
    Diffed(m,
      IF m.threw THEN m
      ELSE IF Falsy(newVNode) /\ ~Falsy(oldVNode)
      THEN removeNode(m, oldVNode, container, index)
      ELSE IF ~Falsy(newVNode) /\ Falsy(oldVNode)
      THEN AppendNew(m, newVNode, container)
      ELSE IF oldVNode.kind = "null" \/ newVNode.kind = "null" THEN Throw(m, "TypeError")
      ELSE IF TypeOf(oldVNode) # TypeOf(newVNode)
      THEN ReplaceWithNew(m, newVNode, container, index)
      ELSE IF IsText(newVNode)
      THEN UpdateText(m, oldVNode, newVNode, container, index)
      ELSE IF container = NoNode THEN Throw(m, "TypeError")
      ELSE diffChildren(updateProps(m, ChildNode(m.dom, container, index),
                                    oldVNode.props, newVNode.props),
                        ChildNode(m.dom, container, index),
                        oldVNode.children, newVNode.children),
      oldVNode, newVNode, container, index)

diff(m, oldVNode, newVNode, container, index) ==
    IF m.build = "core" THEN diffCore(m, oldVNode, newVNode, container, index)
    ELSE diffFull(m, oldVNode, newVNode, container, index)

\* renderComponent after newVNode = comp(compData.props): r = [m, out];
\* m0 is the machine renderComponent was entered with
Reconcile(r, m0, comp) ==
    LET compData == m0.components[comp]
        parentNode == r.m.dom[compData.element].parent
    IN IF r.m.threw THEN r.m
       ELSE IF parentNode = NoNode THEN Throw(r.m, "TypeError")
       ELSE Bind(diff(r.m, compData.oldVNode, r.out, parentNode,
                      IndexOf(r.m.dom[parentNode].kids, compData.element)),
                 LAMBDA d :
                   IF d.threw THEN d
                   ELSE [d EXCEPT !.components[comp].oldVNode = r.out,
                                  !.currentComponent = m0.currentComponent,
                                  !.hookIndex = m0.hookIndex])

\* renderComponent(comp): the re-render of one queued component
renderComponent(m, comp) ==
    IF m.threw THEN m
    ELSE IF comp \notin CompIds \/ ~m.components[comp].has THEN Throw(m, "TypeError")
    ELSE IF m.components[comp].element = NoNode THEN m
    ELSE Bind(Call(Log([m EXCEPT !.currentComponent = comp, !.hookIndex = 0],
                       "render", comp, 0),
                   comp, m.components[comp].props),
              LAMBDA r : Reconcile(r, m, comp))

RECURSIVE FlushFrom(_, _)
\* renderQueue.forEach(comp => renderComponent(comp)): a Set is visited in
\* insertion order, entries added during the visit included
FlushFrom(m, i) ==
    IF m.threw \/ i > Len(m.renderQueue) THEN m
    ELSE FlushFrom(renderComponent(m, m.renderQueue[i]), i + 1)

\* the call render(vnode, container): noted in the log with the tree the
\* container holds and the DOM as it is before the call
RenderCall(m, old, vnode) ==
    LogInfo(m, "root", "", 0, [old |-> old, new |-> vnode, nodes |-> m.dom])

\* render(vnode, container)
render(m, old, vnode) ==
    IF ~Falsy(old) THEN diff(RenderCall(m, old, vnode), old, vnode, Container, 1)
    ELSE AppendNew(RenderCall(m, old, vnode), vnode, Container)

\* ----------------------------------------------------------- legacy build
\* src/minima.js: VNodes are objects { tag, props, children, _key, _dom, _type }
\* that diff and createElement annotate with the DOM node they are mounted to.
\* The elements modelled carry no prop but `key`, which updateElement skips.
LNull == [type |-> "null", tag |-> "", key |-> "", dom |-> NoNode, text |-> 0,
          children |-> <<>>]
\* createVNode(tag, { key }, children); key "" stands for null
createVNode(tag, key, children) ==
    [type |-> "element", tag |-> tag, key |-> key, dom |-> NoNode, text |-> 0,
     children |-> children]
\* children[i], undefined beyond the end
LChildAt(cs, i) == IF i >= 1 /\ i <= Len(cs) THEN cs[i] ELSE LNull

\* parent.children: the element children, text nodes left out
ElemKids(dom, p) == SelectSeq(dom[p].kids, LAMBDA n : dom[n].tag # "#text")
\* parent.children[index] || null
ElemChild(dom, p, index) ==
    IF index >= 1 /\ index <= Len(ElemKids(dom, p))
    THEN ElemKids(dom, p)[index] ELSE NoNode

\* parent.insertBefore(n, ref): n leaves its place first; ref null appends
insertBefore(dom, p, n, ref) ==
    LET d == Detach(dom, n)
        i == IndexOf(d[p].kids, ref)
    IN IF ref = NoNode \/ i = 0
       THEN [d EXCEPT ![p].kids = Append(@, n), ![n].parent = p]
       ELSE [d EXCEPT ![p].kids = SubSeq(@, 1, i - 1) \o << n >>
                                    \o SubSeq(@, i, Len(@)),
                      ![n].parent = p]

RECURSIVE createElementLegacy(_, _), CreateChildren(_, _, _, _)

\* vnode.children.forEach(child => element.appendChild(createElement(child)))
CreateChildren(m, element, children, i) ==
    IF m.threw \/ i > Len(children) THEN [m |-> m, children |-> children]
    ELSE Bind(createElementLegacy(m, children[i]), LAMBDA c :
           IF c.m.threw THEN [m |-> c.m, children |-> children]
           ELSE CreateChildren([c.m EXCEPT !.dom = appendChild(@, element, c.v.dom)],
                               element, [children EXCEPT ![i] = c.v], i + 1))

\* legacy createElement(vnode): returns the machine and the annotated vnode
createElementLegacy(m, vnode) ==
    IF m.threw THEN [m |-> m, v |-> vnode]
    ELSE IF vnode.type = "null"
    THEN [m |-> Throw(m, "Invalid VNode provided"), v |-> vnode]
    ELSE IF vnode.type = "text"
    THEN Bind(Alloc(m, "#text", vnode.text), LAMBDA a :
           [m |-> a.m, v |-> [vnode EXCEPT !.dom = a.node]])
    ELSE Bind(Alloc(m, vnode.tag, 0), LAMBDA a :
           Bind(CreateChildren(a.m, a.node, vnode.children, 1), LAMBDA c :
             [m |-> c.m,
              v |-> [vnode EXCEPT !.dom = a.node, !.children = c.children]]))

\* oldKeyMap.get(key): a later child with the same key overwrites an earlier one
OldKeyMap(oldChildren, key) ==
    LET S == {i \in 1..Len(oldChildren) :
                 oldChildren[i].type # "null" /\ oldChildren[i].key = key}
    IN IF S = {} \/ key = "" THEN 0 ELSE CHOOSE i \in S : \A j \in S : j <= i

\* parent.removeChild(node): NotFoundError when node is not a child of parent
RemoveChildOf(m, parent, node) ==
    IF m.dom[node].parent # parent THEN Throw(m, "NotFoundError")
    ELSE DomLog(m, removeChild(m.dom, parent, node))

RECURSIVE diffLegacy(_, _, _, _), diffChildrenByIndex(_, _, _, _, _),
          MatchKeyed(_, _, _, _), RemoveUnmatched(_, _, _, _, _),
          RunOperations(_, _, _, _)

\* first pass: newChildren.forEach((newChild, newIndex) => ...); a new child
\* whose key is in oldKeyMap is diffed against that old child, then
\*   if (oldIndex !== newIndex && newChild._dom &&
\*       parent.children[newIndex] !== newChild._dom)
\*     parent.insertBefore(newChild._dom, parent.children[newIndex] || null)
MatchKeyed(s, oldChildren, parent, j) ==
    IF s.m.threw \/ j > Len(s.children) THEN s
    ELSE IF s.children[j].type = "null" \/ s.children[j].key = ""
    THEN MatchKeyed([s EXCEPT !.operations =
                        Append(@, [type |-> "update", newIndex |-> j])],
                    oldChildren, parent, j + 1)
    ELSE IF OldKeyMap(oldChildren, s.children[j].key) = 0
    THEN MatchKeyed([s EXCEPT !.operations =
                        Append(@, [type |-> "insert", newIndex |-> j])],
                    oldChildren, parent, j + 1)
    ELSE MatchKeyed(
           Bind(OldKeyMap(oldChildren, s.children[j].key), LAMBDA oldIndex :
             Bind(diffLegacy(s.m, oldChildren[oldIndex], s.children[j], parent),
                  LAMBDA d :
               [s EXCEPT !.m = IF d.m.threw \/ oldIndex = j \/ d.v.dom = NoNode
                               THEN d.m
                               ELSE IF parent = NoNode THEN Throw(d.m, "TypeError")
                               ELSE IF ElemChild(d.m.dom, parent, j) = d.v.dom
                               THEN d.m
                               ELSE DomLog(d.m, insertBefore(
                                      d.m.dom, parent, d.v.dom,
                                      ElemChild(d.m.dom, parent, j))),
                         !.children[j] = d.v,
                         !.matchedOldIndices = @ \cup {oldIndex}])),
           oldChildren, parent, j + 1)

\* second pass: remove the old children no new child was matched with
RemoveUnmatched(m, oldChildren, matchedOldIndices, parent, i) ==
    IF m.threw \/ i > Len(oldChildren) THEN m
    ELSE IF i \notin matchedOldIndices /\ oldChildren[i].type # "null"
            /\ oldChildren[i].dom # NoNode
    THEN RemoveUnmatched(
           IF parent = NoNode THEN Throw(m, "TypeError")
           ELSE RemoveChildOf(m, parent, oldChildren[i].dom),
           oldChildren, matchedOldIndices, parent, i + 1)
    ELSE RemoveUnmatched(m, oldChildren, matchedOldIndices, parent, i + 1)

\* third pass: operations.forEach(...); an insert is
\* parent.insertBefore(createElement(newChild), parent.children[newIndex] || null)
RunOperations(s, oldChildren, parent, n) ==
    IF s.m.threw \/ n > Len(s.operations) THEN s
    ELSE RunOperations(
           Bind(s.operations[n], LAMBDA op :
             IF op.type = "insert"
             THEN Bind(createElementLegacy(s.m, s.children[op.newIndex]), LAMBDA c :
                    [s EXCEPT !.m = IF c.m.threw THEN c.m
                                    ELSE IF parent = NoNode
                                    THEN Throw(c.m, "TypeError")
                                    ELSE DomLog(c.m, insertBefore(
                                           c.m.dom, parent, c.v.dom,
                                           ElemChild(c.m.dom, parent, op.newIndex))),
                              !.children[op.newIndex] = c.v])
             ELSE Bind(diffLegacy(s.m, LChildAt(oldChildren, op.newIndex),
                                  s.children[op.newIndex], parent), LAMBDA d :
                    [s EXCEPT !.m = d.m,
                              !.children[op.newIndex] =
                                 IF @.type = "null" THEN @ ELSE d.v])),
           oldChildren, parent, n + 1)

\* legacy diffChildrenWithKeys(oldChildren, newChildren, parent)
diffChildrenWithKeys(m, oldChildren, newChildren, parent) ==
    Bind(MatchKeyed([m |-> m, children |-> newChildren,
                     matchedOldIndices |-> {}, operations |-> <<>>],
                    oldChildren, parent, 1), LAMBDA s1 :
      Bind(RunOperations(
             [s1 EXCEPT !.m = RemoveUnmatched(s1.m, oldChildren,
                                              s1.matchedOldIndices, parent, 1)],
             oldChildren, parent, 1), LAMBDA s2 :
        [m |-> s2.m, children |-> s2.children]))

\* legacy diffChildrenByIndex: diff(oldChildren[i], newChildren[i], parent, i)
diffChildrenByIndex(m, oldChildren, newChildren, parent, i) ==
    IF m.threw \/ (i > Len(oldChildren) /\ i > Len(newChildren))
    THEN [m |-> m, children |-> newChildren]
    ELSE Bind(diffLegacy(m, LChildAt(oldChildren, i), LChildAt(newChildren, i),
                         parent), LAMBDA d :
           diffChildrenByIndex(
             d.m, oldChildren,
             IF i <= Len(newChildren) /\ newChildren[i].type # "null"
             THEN [newChildren EXCEPT ![i] = d.v] ELSE newChildren,
             parent, i + 1))

\* Case 4 of the legacy diff: newVNode._dom = oldVNode._dom, update in place;
\* diffChildren is keyed when some new child carries a key
UpdateInPlace(m, oldVNode, newVNode, parent) ==
    IF newVNode.type = "text"
    THEN [m |-> IF oldVNode.text = newVNode.text THEN m
                ELSE IF oldVNode.dom = NoNode THEN Throw(m, "TypeError")
                ELSE SetTextContent(m, oldVNode.dom, newVNode.text),
          v |-> [newVNode EXCEPT !.dom = oldVNode.dom]]
    ELSE Bind(IF \E i \in 1..Len(newVNode.children) :
                    newVNode.children[i].type # "null"
                       /\ newVNode.children[i].key # ""
              THEN diffChildrenWithKeys(m, oldVNode.children, newVNode.children,
                                        oldVNode.dom)
              ELSE diffChildrenByIndex(m, oldVNode.children, newVNode.children,
                                       oldVNode.dom, 1), LAMBDA c :
           [m |-> c.m,
            v |-> [newVNode EXCEPT !.dom = oldVNode.dom, !.children = c.children]])

\* Case 1 and Case 3: createElement(newVNode), then append it to the parent
\* or put it in the place of the old node
CreateInto(m, oldVNode, newVNode, parent) ==
    Bind(createElementLegacy(m, newVNode), LAMBDA c :
      IF c.m.threw \/ parent = NoNode THEN c
      ELSE IF oldVNode.type = "null"
      THEN [m |-> DomLog(c.m, appendChild(c.m.dom, parent, c.v.dom)), v |-> c.v]
      ELSE IF oldVNode.dom = NoNode THEN c
      ELSE IF c.m.dom[oldVNode.dom].parent # parent
      THEN [m |-> Throw(c.m, "NotFoundError"), v |-> c.v]
      ELSE [m |-> DomLog(c.m, replaceChild(c.m.dom, parent, c.v.dom, oldVNode.dom)),
            v |-> c.v])

\* legacy diff(oldVNode, newVNode, parent): returns the machine and the VNode
\* the call returns (the annotated newVNode, or null)
diffLegacy(m, oldVNode, newVNode, parent) ==
    IF m.threw THEN [m |-> m, v |-> newVNode]
    ELSE IF oldVNode.type = "null" THEN CreateInto(m, oldVNode, newVNode, parent)
    ELSE IF newVNode.type = "null"
    THEN [m |-> IF parent # NoNode /\ oldVNode.dom # NoNode
                THEN RemoveChildOf(m, parent, oldVNode.dom) ELSE m,
          v |-> LNull]
    ELSE IF oldVNode.type # newVNode.type \/ oldVNode.tag # newVNode.tag
    THEN CreateInto(m, oldVNode, newVNode, parent)
    ELSE UpdateInPlace(m, oldVNode, newVNode, parent)

\* ---------------------------------------------------------- state machine
VARIABLES
    build,             \* "core" (minima-core.js) or "full" (Full section)
    components,        \* the components WeakMap: function -> compData
    currentComponent,  \* let currentComponent
    hookIndex,         \* let hookIndex
    renderQueue,       \* the renderQueue Set, in insertion order
    isRendering,       \* let isRendering
    armed,             \* flush callbacks waiting in the microtask/idle queue
    dom,               \* every DOM node created so far
    minimaVNode,       \* container._minimaVNode
    log,               \* what the last handler did, step by step
    threw,             \* the last handler ended with an uncaught exception
    clickPending,      \* a click handler ran since the last flush
    last,              \* which handler ran last, and what it started from
    reactive,          \* legacy: one createState object and the batch system
    router,            \* legacy: the router object and window.location
    componentCache     \* legacy: the componentCache Map, in insertion order

vars == <<build, components, currentComponent, hookIndex, renderQueue,
          isRendering, armed, dom, minimaVNode, log, threw, clickPending, last,
          reactive, router, componentCache>>

\* the machine a handler starts from
Machine ==
    [build |-> build, components |-> components,
     currentComponent |-> currentComponent, hookIndex |-> hookIndex,
     renderQueue |-> renderQueue, isRendering |-> isRendering, armed |-> armed,
     dom |-> dom, log |-> <<>>, threw |-> FALSE]

Commit(m) ==
    /\ components' = m.components
    /\ currentComponent' = m.currentComponent
    /\ hookIndex' = m.hookIndex
    /\ renderQueue' = m.renderQueue
    /\ isRendering' = m.isRendering
    /\ armed' = m.armed
    /\ dom' = m.dom
    /\ log' = m.log
    /\ threw' = m.threw
    /\ build' = build
    /\ UNCHANGED <<reactive, router, componentCache>>

\* the trees the application passes to render()
Comp(c) == createElement(c, NoProps, <<>>)

\* the trees of an application that renders keyed lists and plain text
Ul(ks) ==
    createElement("ul", NoProps,
                  [i \in 1..Len(ks) |->
                     createElement("li", [NoProps EXCEPT !.key = ks[i]], <<>>)])

RECURSIVE Cost(_), CostAll(_, _)
\* upper bound on the DOM nodes a fresh mount of vnode creates
Cost(v) == IF v.kind = "null" THEN 0
           ELSE IF v.kind = "text" THEN 1
           ELSE IF IsFunction(v.type) THEN 3
           ELSE 1 + CostAll(v.children, 1)
CostAll(cs, i) == IF i > Len(cs) THEN 0 ELSE Cost(cs[i]) + CostAll(cs, i + 1)

MountedComps(d, cs) == {c \in CompIds : cs[c].has /\ Attached(d, cs[c].element)}

\* the application makes no use of createState, the router or memo
NoState == [target |-> <<>>, computed |-> {}, deps |-> <<>>, cache |-> <<>>,
            pending |-> 0, scheduled |-> FALSE]
NoRouter == [routes |-> {}, beforeEach |-> <<>>, currentRoute |-> "",
             location |-> "", rendered |-> ""]
Unused == reactive = NoState /\ router = NoRouter /\ componentCache = <<>>

NoLast == [op |-> "init", clicked |-> FALSE, pending |-> <<>>,
           detached |-> {}, unmounted |-> {}]

Init ==
    /\ build \in {"core", "full"}
    /\ components = [c \in CompIds |-> NoEntry]
    /\ currentComponent = Null
    /\ hookIndex = 0
    /\ renderQueue = <<>>
    /\ isRendering = FALSE
    /\ armed = 0
    /\ dom = InitDom
    /\ minimaVNode = VNull
    /\ log = <<>>
    /\ threw = FALSE
    /\ clickPending = FALSE
    /\ last = NoLast
    /\ Unused

\* the application calls render(t, container)
Render(t) ==
    /\ Len(dom) + Cost(t) <= MaxNodes
    /\ \E m \in {render(Machine, minimaVNode, t)} :
          /\ Commit(m)
          /\ minimaVNode' = IF m.threw THEN minimaVNode ELSE t
          /\ last' = [NoLast EXCEPT
                        !.op = "render",
                        !.unmounted =
                           {<<c, i>> \in CompIds \X (1..2) :
                               /\ c \in MountedComps(dom, components)
                               /\ c \notin MountedComps(m.dom, m.components)
                               /\ i <= Len(components[c].hooks)
                               /\ components[c].hooks[i].cleanup}]
    /\ UNCHANGED clickPending

\* the listener Counter registered: () => { setV(x => x+1) three times }
inc3(m) ==
    LET inc == [fn |-> TRUE, by |-> 1]
    IN setState(setState(setState(m, "Counter", 1, inc), "Counter", 1, inc),
                "Counter", 1, inc)

\* the user clicks the attached element n
Click(n) ==
    /\ Attached(dom, n)
    /\ <<"onClick", "inc3">> \in dom[n].listeners
    /\ components["Counter"].hooks[1].state + 3 <= MaxVal
    /\ Commit(inc3(Machine))
    /\ clickPending' = TRUE
    /\ last' = [NoLast EXCEPT !.op = "click"]
    /\ UNCHANGED minimaVNode

\* the event loop runs the callback armed by scheduleRender:
\*   renderQueue.forEach(...); renderQueue.clear(); isRendering = false
Flush ==
    /\ armed > 0
    /\ Commit(Bind(FlushFrom([Machine EXCEPT !.armed = armed - 1], 1), LAMBDA m1 :
                IF m1.threw THEN m1
                ELSE [m1 EXCEPT !.renderQueue = <<>>, !.isRendering = FALSE]))
    /\ clickPending' = FALSE
    /\ last' = [NoLast EXCEPT
                  !.op = "flush",
                  !.clicked = clickPending,
                  !.pending = renderQueue,
                  !.detached = {c \in Range(renderQueue) \cap CompIds :
                                   c \notin MountedComps(dom, components)}]
    /\ UNCHANGED minimaVNode

Next ==
    \/ \E t \in { Comp("Counter"),
                  Comp("Fx"),
                  createElement("Parent", [NoProps EXCEPT !.id = "a"], <<>>),
                  createElement("div", NoProps, << Comp("Fx"), Comp("Fx") >>),
                  createElement("div", NoProps, << Comp("Bad"), Comp("Fx") >>),
                  createElement("p", NoProps, << VText(1) >>),
                  VNull } : Render(t)
    \/ \E n \in 1..Len(dom) : Click(n)
    \/ Flush

Spec == Init /\ [][Next]_vars

\* the flush callback is a microtask (Promise.resolve().then): once armed it
\* runs; renders and clicks are up to the application and the user
SpecFair ==
    Spec /\ WF_last(/\ armed > 0
                    /\ last' = [NoLast EXCEPT
                                  !.op = "flush",
                                  !.clicked = clickPending,
                                  !.pending = renderQueue,
                                  !.detached = {c \in Range(renderQueue) \cap CompIds :
                                                   c \notin MountedComps(dom, components)}])

\* the trees of an application built on the components Two and Parent
\* the application built on Two and Parent
NextHooks ==
    \/ \E t \in { Comp("Two"),
                  createElement("Parent", [NoProps EXCEPT !.id = "a"], <<>>),
                  createElement("Parent", [NoProps EXCEPT !.id = "b"], <<>>),
                  createElement("div", NoProps, << Comp("Two"), Comp("Two") >>),
                  createElement("p", NoProps, << VText(1) >>),
                  VNull } : Render(t)
    \/ Flush

SpecHooks == Init /\ [][NextHooks]_vars

\* the application that renders keyed lists and plain text
NextLists == \E t \in { Ul(<< "x", "y", "z" >>),
                        Ul(<< "z", "x", "y" >>),
                        Ul(<< "z", "y", "x" >>),
                        Ul(<< "y", "x" >>),
                        Ul(<< "x" >>),
                        createElement("a", [NoProps EXCEPT !.id = "a", !.onClick = "inc3"],
                                      << VText(1) >>),
                        createElement("p", NoProps, << VText(1) >>),
                        createElement("p", NoProps, << VText(0) >>),
                        VNull } : Render(t)

SpecLists == Init /\ [][NextLists]_vars

\* the application that renders a list of one or three items under a <ul>
\* with no click handler or with one of the handlers f, g, h
NextProps ==
    \E ks \in { << "x" >>, << "x", "y", "z" >> }, handler \in {"", "f", "g", "h"} :
       Render([Ul(ks) EXCEPT !.props.onClick = handler])

SpecProps == Init /\ [][NextProps]_vars

\* the application built on Total with the Full build: it mounts Total with
\* one of two ids, shows a paragraph instead, and empties the container
NextMemoHook ==
    \E t \in { createElement("Total", [NoProps EXCEPT !.id = "a"], <<>>),
               createElement("Total", [NoProps EXCEPT !.id = "b"], <<>>),
               createElement("p", NoProps, << VText(1) >>),
               VNull } : Render(t)

\* only the Full build exports useMemo
InitMemoHook == Init /\ build = "full"

SpecMemoHook == InitMemoHook /\ [][NextMemoHook]_vars

HookOutside(h) ==
    /\ \A c \in CompIds : Len(components[c].hooks) < MaxHooks
    /\ Commit(IF h = "useState" THEN useState(Machine, 0).m
              ELSE useEffect(Machine, [act |-> "none", ret |-> FALSE], NoDeps))
    /\ last' = [NoLast EXCEPT !.op = h]
    /\ UNCHANGED <<minimaVNode, clickPending>>

\* the application calls a hook from code that no component function is
\* running: top-level code, a timer, an event listener
NextOutside ==
    \/ \E t \in { createElement("div", NoProps, << Comp("Bad"), Comp("Fx") >>),
                  Comp("Fx"),
                  createElement("p", NoProps, << VText(1) >>),
                  VNull } : Render(t)
    \/ Flush
    \/ \E h \in {"useState", "useEffect"} : HookOutside(h)

SpecOutside == Init /\ [][NextOutside]_vars

\* ----------------------------------------------------- server-side rendering
\* the HTML string as the pieces it is concatenated from
\* serializeAttrs(props): children, key and on* handlers are left out
serializeAttrs(props) ==
    IF props["id"] # "" THEN << [attr |-> "id", value |-> props["id"]] >> ELSE <<>>
\* `<${tag}${attrs}>`, sanitizeText(String(vnode)), `</${tag}>`

RECURSIVE vnodeToString(_, _), ChildrenToString(_, _, _, _)

\* children.map(vnodeToString).join('')
ChildrenToString(m, children, i, html) ==
    IF m.threw \/ i > Len(children) THEN [m |-> m, html |-> html]
    ELSE Bind(vnodeToString(m, children[i]), LAMBDA c :
           ChildrenToString(c.m, children, i + 1, html \o c.html))

\* vnodeToString(vnode): a component function is called as it is,
\* vnode.type(vnode.props), with the module state the caller left
vnodeToString(m, vnode) ==
    IF m.threw \/ vnode.kind = "null" THEN [m |-> m, html |-> <<>>]
    ELSE IF IsText(vnode) THEN [m |-> m, html |-> << [piece |-> "text", tag |-> "",
                                                  attrs |-> <<>>, text |-> vnode.val] >>]
    ELSE IF IsFunction(vnode.type)
    THEN Bind(Call(m, vnode.type, vnode.props), LAMBDA r :
           IF r.m.threw THEN [m |-> r.m, html |-> <<>>]
           ELSE vnodeToString(r.m, r.out))
    ELSE Bind(ChildrenToString(m, vnode.children, 1, <<>>), LAMBDA c :
           [m |-> c.m,
            html |-> << [piece |-> "open", tag |-> vnode.type,
                        attrs |-> serializeAttrs(vnode.props), text |-> 0] >>
                       \o c.html \o << [piece |-> "close", tag |-> vnode.type,
                                       attrs |-> <<>>, text |-> 0] >>])

\* renderToString(component): component is a VNode here
renderToString(m, component) ==
    IF component.kind # "node"
    THEN Throw(m, "renderToString: Invalid component")
    ELSE Bind(vnodeToString(m, component), LAMBDA r :
           IF r.m.threw THEN r.m
           ELSE LogInfo(r.m, "html", "", 0, [html |-> r.html]))

\* the trees an application renders and serializes
SSRTrees ==
    { createElement("div", [NoProps EXCEPT !.id = "a"], << Comp("Bad"), Comp("Fx") >>),
      Comp("Fx"),
      createElement("p", [NoProps EXCEPT !.id = "a"], << VText(1) >>),
      VNull }

\* the application calls renderToString(t)
RenderToString(t) ==
    /\ \A c \in CompIds : Len(components[c].hooks) < MaxHooks
    /\ Commit(renderToString(LogInfo(Machine, "serialize", "", 0,
                                       [components |-> components]), t))
    /\ last' = [NoLast EXCEPT !.op = "renderToString"]
    /\ UNCHANGED <<minimaVNode, clickPending>>

NextSSR ==
    \/ \E t \in SSRTrees : Render(t)
    \/ Flush
    \/ \E t \in SSRTrees : RenderToString(t)

SpecSSR == Init /\ [][NextSSR]_vars

\* core and full createElement: the tag is stored as it is, never inspected
createElementOf(m, tag, props, children) ==
    [m |-> m,
     v |-> [createElement(tag.v, [NoProps EXCEPT !.key = props.key], children)
              EXCEPT !.kind = tag.t]]

\* legacy createVNode: typeof tag !== 'string' throws an Error; props.key is
\* read from the argument itself (the default {} replaces undefined only)
createVNodeOf(m, tag, props, children) ==
    IF tag.t # "string"
    THEN [m |-> Throw(m, "Error"), v |-> LNull]
    ELSE IF ~props.def THEN [m |-> Throw(m, "TypeError"), v |-> LNull]
    ELSE [m |-> m, v |-> createVNode(tag.v, props.key, children)]

Construct(tag, props, children) ==
    /\ \E r \in {IF build = "legacy"
                  THEN createVNodeOf(LogInfo(Machine, "construct", "", 0,
                                             [tag |-> tag, props |-> props]),
                                     tag, props, children)
                  ELSE createElementOf(LogInfo(Machine, "construct", "", 0,
                                               [tag |-> tag, props |-> props]),
                                       tag, props, children)} :
          /\ Commit(r.m)
          /\ minimaVNode' = r.v
    /\ last' = [NoLast EXCEPT !.op = "construct"]
    /\ UNCHANGED clickPending

InitConstruct ==
    /\ build \in {"core", "full", "legacy"}
    /\ components = [c \in CompIds |-> NoEntry]
    /\ currentComponent = Null
    /\ hookIndex = 0
    /\ renderQueue = <<>>
    /\ isRendering = FALSE
    /\ armed = 0
    /\ dom = InitDom
    /\ minimaVNode = VNull
    /\ log = <<>>
    /\ threw = FALSE
    /\ clickPending = FALSE
    /\ last = NoLast
    /\ Unused

\* the application constructs a VNode: createElement(tag, props, ...children)
\* in the core and full builds, createVNode(tag, props, children) in the
\* legacy build.  A tag is a JavaScript value: its typeof and a name for it.
\* The props argument is an object with or without a key, or null.
NextConstruct ==
    \E tag \in { [t |-> "string", v |-> "div"],
                 [t |-> "string", v |-> "li"],
                 [t |-> "function", v |-> "Counter"],
                 [t |-> "number", v |-> "42"],
                 [t |-> "undefined", v |-> "undefined"],
                 [t |-> "object", v |-> "null"] },
       props \in { [def |-> TRUE, key |-> ""], [def |-> TRUE, key |-> "x"],
                   [def |-> TRUE, key |-> "y"], [def |-> FALSE, key |-> ""] },
       children \in { <<>>, << VText(1) >>, << VText(0) >> } :
       Construct(tag, props, children)

SpecConstruct == InitConstruct /\ [][NextConstruct]_vars

\* the legacy build (src/minima.js): the application keeps the tree the last
\* call returned and calls current = diff(current, tree, container)
LKeys == {"x", "y", "z"}

InitLegacy ==
    /\ build = "legacy"
    /\ components = [c \in CompIds |-> NoEntry]
    /\ currentComponent = Null
    /\ hookIndex = 0
    /\ renderQueue = <<>>
    /\ isRendering = FALSE
    /\ armed = 0
    /\ dom = InitDom
    /\ minimaVNode = LNull
    /\ log = <<>>
    /\ threw = FALSE
    /\ clickPending = FALSE
    /\ last = NoLast
    /\ Unused

LegacyDiff(t) ==
    /\ build = "legacy"
    /\ Len(dom) + 1 + Len(t.children) <= MaxNodes
    /\ \E d \in {diffLegacy(RenderCall(Machine, minimaVNode, t),
                             minimaVNode, t, Container)} :
          /\ Commit(d.m)
          /\ minimaVNode' = IF d.m.threw THEN minimaVNode ELSE d.v
    /\ last' = [NoLast EXCEPT !.op = "diff"]
    /\ UNCHANGED clickPending

\* the application diffs the <ul> of a list of pairwise different keys, or of
\* one key twice, or null, against the tree it holds
NextLegacy ==
    \E t \in {createVNode("ul", "", [i \in 1..Len(ks) |->
                                        createVNode("li", ks[i], <<>>)]) : ks \in
                 {ks \in UNION {[1..n -> LKeys] : n \in 0..Cardinality(LKeys)} :
                     \A i, j \in 1..Len(ks) : ks[i] = ks[j] => i = j}
                 \cup {<< k, k >> : k \in LKeys}}
            \cup {LNull} :
       LegacyDiff(t)

SpecLegacy == InitLegacy /\ [][NextLegacy]_vars

\* ------------------------------------------------- legacy reactive state
\* the variables of the hook runtime and the DOM, which the legacy state,
\* router and memo code never touches
RenderVars == <<build, components, currentComponent, hookIndex, renderQueue,
                isRendering, armed, dom, minimaVNode, clickPending>>

\* the computed properties of the application:
\*   doubleCount: function(state) { return state.count * 2 }
\*   shown:       function(state) { return state.flag ? state.count : 0 }
ComputedNames == {"doubleCount", "shown"}
\* getter.call(proxy, proxy): the value, and the properties it read
Getter(k, target) ==
    IF k = "doubleCount"
    THEN [value |-> target["count"] * 2, reads |-> {"count"}]
    ELSE IF target["flag"] # 0
    THEN [value |-> target["count"], reads |-> {"flag", "count"}]
    ELSE [value |-> 0, reads |-> {"flag"}]

NoCache == [has |-> FALSE, value |-> 0]
\* trackComputedDependencies(computedKey, getter): the getter runs once, on a
\* copy of initialState
trackComputedDependencies(r, computedKey) ==
    [r EXCEPT !.deps[computedKey] = Getter(computedKey, r.initial).reads]

\* createState(initialState, computed)
createState(initialState, computed) ==
    [initial |-> initialState,
     target |-> initialState,
     computed |-> computed,
     deps |-> [k \in ComputedNames |->
                 IF k \in computed THEN Getter(k, initialState).reads ELSE {}],
     cache |-> [k \in ComputedNames |-> NoCache],
     pending |-> 0, scheduled |-> FALSE]

InitState ==
    /\ build = "legacy"
    /\ components = [c \in CompIds |-> NoEntry]
    /\ currentComponent = Null
    /\ hookIndex = 0
    /\ renderQueue = <<>>
    /\ isRendering = FALSE
    /\ armed = 0
    /\ dom = InitDom
    /\ minimaVNode = LNull
    /\ log = <<>>
    /\ threw = FALSE
    /\ clickPending = FALSE
    /\ last = NoLast
    /\ reactive \in {createState(i, c) : i \in {[flag |-> f, count |-> 1] : f \in {0, 1}},
                                          c \in SUBSET ComputedNames}
    /\ router = NoRouter
    /\ componentCache = <<>>

\* what a handler of the state object leaves in the trace variables
Did(op, event) ==
    /\ log' = << event >>
    /\ threw' = FALSE
    /\ last' = [NoLast EXCEPT !.op = op]

\* the proxy's set trap: state[property] = value
StateSet(property, value) ==
    /\ property = "flag" => value <= 1
    /\ reactive.pending < MaxPending
    /\ reactive' =
          [reactive EXCEPT
             !.target[property] = value,
             !.cache = [k \in ComputedNames |->
                          IF property \in reactive.deps[k] THEN NoCache ELSE @[k]],
             !.pending = IF reactive.target[property] # value THEN @ + 1 ELSE @,
             !.scheduled = @ \/ reactive.target[property] # value]
    /\ Did("set", [ev |-> "set", comp |-> property, val |-> value, info |-> <<>>])
    /\ UNCHANGED <<RenderVars, router, componentCache>>

\* the proxy's get trap for a computed property: state[property]
StateGet(property) ==
    /\ property \in reactive.computed
    /\ \E value \in {IF reactive.cache[property].has
                       THEN reactive.cache[property].value
                       ELSE Getter(property, reactive.target).value} :
          /\ reactive' = [reactive EXCEPT
                             !.cache[property] = [has |-> TRUE, value |-> value]]
          /\ Did("get", [ev |-> "get", comp |-> property, val |-> value,
                          info |-> <<>>])
    /\ UNCHANGED <<RenderVars, router, componentCache>>

\* state._addComputed(key, getter)
AddComputed(key) ==
    /\ key \notin reactive.computed
    /\ reactive' = [trackComputedDependencies(reactive, key) EXCEPT
                       !.computed = @ \cup {key},
                       !.cache[key] = NoCache]
    /\ Did("addComputed", [ev |-> "addComputed", comp |-> key, val |-> 0,
                            info |-> <<>>])
    /\ UNCHANGED <<RenderVars, router, componentCache>>

\* batchSystem.flush(), run by requestAnimationFrame: no subscriber is
\* registered, the callbacks have nothing to call
BatchFlush ==
    /\ reactive.scheduled
    /\ reactive' = [reactive EXCEPT !.pending = 0, !.scheduled = FALSE]
    /\ Did("flush", [ev |-> "batch", comp |-> "", val |-> reactive.pending,
                      info |-> <<>>])
    /\ UNCHANGED <<RenderVars, router, componentCache>>

\* the application writes the state properties flag and count, reads and
\* adds the computed properties, and the batch timer fires
NextState ==
    \/ \E property \in {"flag", "count"}, value \in 0..MaxVal : StateSet(property, value)
    \/ \E property \in ComputedNames : StateGet(property)
    \/ \E key \in ComputedNames : AddComputed(key)
    \/ BatchFlush

SpecState == InitState /\ [][NextState]_vars

\* ----------------------------------------------------------- legacy router
\* the routes given to router.init, each with a component of its own, and the
\* paths the application navigates to
Routes == {"/", "/admin", "/login"}
Paths == Routes \cup {"/nope"}

\* one run of _executeGuards is the record [r, log, to, from, guardIndex]:
\* the router, the trace, and the variables its closures share

\* the callback _handleRouteChange passes to _executeGuards
GuardsDone(n, allowed) ==
    IF allowed
    THEN LogInfo([n EXCEPT !.r.currentRoute = n.to, !.r.rendered = n.to],
                 "routed", n.to, 0, <<>>)
    ELSE LogInfo(n, "blocked", n.to, 0, <<>>)

RECURSIVE handleRouteChange(_, _), executeNextGuard(_, _), NextCalled(_, _, _),
          RunGuard(_, _)

\* navigate(path): history.pushState, then _handleRouteChange
navigate(r, trace, path) ==
    handleRouteChange([r EXCEPT !.location = path], trace)

\* _handleRouteChange; _matchRoute finds the route whose path is the location
handleRouteChange(r, trace) ==
    IF r.location \in r.routes
    THEN executeNextGuard([r |-> r, log |-> trace, to |-> r.location,
                           from |-> r.currentRoute, guardIndex |-> 0], TRUE)
    ELSE [r |-> [r EXCEPT !.rendered = "404"], log |-> trace, to |-> r.location,
          from |-> r.currentRoute, guardIndex |-> 0]

\* executeNextGuard(allowed)
executeNextGuard(n, allowed) ==
    IF ~allowed \/ n.guardIndex >= Len(n.r.beforeEach) THEN GuardsDone(n, allowed)
    ELSE RunGuard([n EXCEPT !.guardIndex = @ + 1], n.guardIndex + 1)

\* the function guard i receives as next, called with result:
\* "" for next(), "false" for next(false), a path for next('/path')
NextCalled(n, i, result) ==
    IF result \in Paths
    THEN Bind(navigate(n.r, LogInfo(n, "next", n.to, i, [result |-> result]).log,
                       result),
              LAMBDA d : GuardsDone([n EXCEPT !.r = d.r, !.log = d.log], FALSE))
    ELSE executeNextGuard(LogInfo(n, "next", n.to, i, [result |-> result]),
                          result # "false")

\* try { guard(to, from, next) } catch (error) { callback(false) }
RunGuard(n0, i) ==
    Bind(LogInfo(n0, "guard", n0.to, i, [kind |-> n0.r.beforeEach[i]]), LAMBDA n :
      CASE n.r.beforeEach[i] = "allow" -> NextCalled(n, i, "")
        [] n.r.beforeEach[i] = "deny" -> NextCalled(n, i, "false")
        [] n.r.beforeEach[i] = "redirect" ->
             IF n.to # "/login" THEN NextCalled(n, i, "/login")
             ELSE NextCalled(n, i, "")
        [] n.r.beforeEach[i] = "throw" ->
             GuardsDone(LogInfo(n, "caught", n.to, i, <<>>), FALSE)
        [] n.r.beforeEach[i] = "denyAllow" ->
             NextCalled(NextCalled(n, i, "false"), i, "")
        [] OTHER -> n)

\* router.init(routes, container) with the location at "/" and no guard yet
InitRouter ==
    /\ build = "legacy"
    /\ components = [c \in CompIds |-> NoEntry]
    /\ currentComponent = Null
    /\ hookIndex = 0
    /\ renderQueue = <<>>
    /\ isRendering = FALSE
    /\ armed = 0
    /\ dom = InitDom
    /\ minimaVNode = LNull
    /\ log = <<>>
    /\ threw = FALSE
    /\ clickPending = FALSE
    /\ last = NoLast
    /\ reactive = NoState
    /\ router = handleRouteChange([NoRouter EXCEPT !.routes = Routes,
                                                    !.location = "/"], <<>>).r
    /\ componentCache = <<>>

\* router.beforeEach(guard)
BeforeEach(guard) ==
    /\ Len(router.beforeEach) < MaxGuards
    /\ router' = [router EXCEPT !.beforeEach = Append(@, guard)]
    /\ log' = <<>>
    /\ threw' = FALSE
    /\ last' = [NoLast EXCEPT !.op = "beforeEach"]
    /\ UNCHANGED <<RenderVars, reactive, componentCache>>

\* router.navigate(path), also what a click on an internal link does
Navigate(path) ==
    /\ \E d \in {navigate(router,
                            << [ev |-> "navigate", comp |-> path, val |-> 0,
                                info |-> [from |-> router.currentRoute,
                                          rendered |-> router.rendered]] >>,
                            path)} :
          /\ router' = d.r
          /\ log' = d.log
    /\ threw' = FALSE
    /\ last' = [NoLast EXCEPT !.op = "navigate"]
    /\ UNCHANGED <<RenderVars, reactive, componentCache>>

\* the beforeEach guards of the application, (to, from, next) => ...
\*   allow:     next()
\*   deny:      next(false)
\*   redirect:  if (to.path !== '/login') next('/login'); else next()
\*   throw:     throw new Error()
\*   silent:    returns without calling next
\*   denyAllow: if (...) next(false); next()      (no return after the denial)
NextRouter ==
    \/ \E guard \in {"allow", "deny", "redirect", "throw", "silent", "denyAllow"} :
          BeforeEach(guard)
    \/ \E path \in Paths : Navigate(path)

SpecRouter == InitRouter /\ [][NextRouter]_vars

\* ------------------------------------- legacy batch system and components
\* One instance of a component made by defineComponent, its state object
\* (instance.state = createState({})) and the batch system are the record
\*   [pending, scheduled, x, subscribed, destroyed, onDestroy, returned]:
\* batchSystem._pending in insertion order, batchSystem._scheduled, the state
\* property x, whether the instance's subscriber is in the state's subscriber
\* set, instance._destroyed, and what the onDestroy hook the component
\* function installed does ("returns" or "throws"); `returned` notes that a
\* call of instance.destroy() has returned.  A handler works on [r, log],
\* that record and the trace.
\* The callbacks the application passes to MinimaJS.batchUpdates:
\*   a:       () => {}
\*   thrower: () => { throw new Error() }
\*   again:   () => { MinimaJS.batchUpdates(a) }
\* and "notify" is a closure the set trap of the state schedules, a new
\* function at every call.

\* batchSystem.schedule(callback): a Set keeps one entry per function
schedule(s, callback) ==
    Log([s EXCEPT !.r.pending = IF callback # "notify" /\ callback \in Range(@)
                                THEN @ ELSE Append(@, callback),
                  !.r.scheduled = TRUE],
        "schedule", callback, 0)

RECURSIVE RunCallbacks(_, _, _)
\* callbacks.forEach(callback => { try { callback() } catch (error) { ... } });
\* the closure of the set trap calls the subscribers, and the subscriber of
\* the instance calls onUpdate unless instance._destroyed
RunCallbacks(s, callbacks, i) ==
    IF i > Len(callbacks) THEN s
    ELSE RunCallbacks(
           Bind(Log(s, "run", callbacks[i], i), LAMBDA s1 :
             CASE callbacks[i] = "again" -> schedule(s1, "a")
               [] callbacks[i] = "thrower" -> Log(s1, "caught", "thrower", i)
               [] callbacks[i] = "notify" /\ s1.r.subscribed /\ ~s1.r.destroyed ->
                     Log(s1, "onUpdate", "instance", 0)
               [] OTHER -> s1),
           callbacks, i + 1)

\* a flush that clears the pending set after it has run the callbacks
flush_clearLast(s) ==
    [RunCallbacks(s, s.r.pending, 1) EXCEPT !.r.pending = <<>>,
                                            !.r.scheduled = FALSE]

\* batchSystem.flush()
flush(s) ==
    RunCallbacks([s EXCEPT !.r.pending = <<>>, !.r.scheduled = FALSE],
                 s.r.pending, 1)

\* instance.destroy(): the whole body is in one try block, and _destroyed is
\* set by its last statements
destroy(s) ==
    IF s.r.destroyed THEN s
    ELSE IF s.r.onDestroy = "throws"
    THEN Log(Log(s, "onDestroy", "instance", 0), "caught", "onDestroy", 0)
    ELSE [Log(s, "onDestroy", "instance", 0) EXCEPT !.r.subscribed = FALSE,
                                                    !.r.destroyed = TRUE]

\* a handler of the application that ends with d = [r, log]
Handled(op, d) ==
    /\ reactive' = d.r
    /\ log' = d.log
    /\ threw' = FALSE
    /\ last' = [NoLast EXCEPT !.op = op, !.pending = reactive.pending]
    /\ UNCHANGED <<RenderVars, router, componentCache>>

\* MinimaJS.batchUpdates(callback)
BatchUpdates(callback) ==
    /\ Handled("batchUpdates", schedule([r |-> reactive, log |-> <<>>], callback))

\* instance.state.x = value: the set trap schedules its closure when the
\* value changes
SetX(value) ==
    /\ Cardinality({i \in 1..Len(reactive.pending) :
                       reactive.pending[i] = "notify"}) < MaxPending
    /\ Handled("set",
               IF reactive.x = value
               THEN [r |-> reactive, log |-> <<>>]
               ELSE schedule([r |-> [reactive EXCEPT !.x = value], log |-> <<>>],
                             "notify"))

\* requestAnimationFrame runs () => this.flush()
Frame ==
    /\ reactive.scheduled
    /\ Handled("frame", flush([r |-> reactive, log |-> <<>>]))

\* the application calls instance.destroy()
Destroy ==
    /\ Handled("destroy",
               destroy([r |-> [reactive EXCEPT !.returned = TRUE], log |-> <<>>]))

\* const instance = Component(props), whose component function has set
\* this.onUpdate and this.onDestroy
InitComponent ==
    /\ build = "legacy"
    /\ components = [c \in CompIds |-> NoEntry]
    /\ currentComponent = Null
    /\ hookIndex = 0
    /\ renderQueue = <<>>
    /\ isRendering = FALSE
    /\ armed = 0
    /\ dom = InitDom
    /\ minimaVNode = LNull
    /\ log = <<>>
    /\ threw = FALSE
    /\ clickPending = FALSE
    /\ last = NoLast
    /\ reactive \in {[pending |-> <<>>, scheduled |-> FALSE, x |-> 0,
                       subscribed |-> TRUE, destroyed |-> FALSE,
                       onDestroy |-> hook, returned |-> FALSE] :
                         hook \in {"returns", "throws"}}
    /\ router = NoRouter
    /\ componentCache = <<>>

NextComponent ==
    \/ \E callback \in {"a", "thrower", "again"} : BatchUpdates(callback)
    \/ \E value \in 0..1 : SetX(value)
    \/ Frame
    \/ Destroy

SpecComponent == InitComponent /\ [][NextComponent]_vars

\* ------------------------------------------------------------- legacy memo
\* if (componentCache.size > 100)
CacheLimit == 100

\* props of the memoized component: { dataset: n, onSelect: handler }
\* JSON.stringify(props || {}) keeps the number and drops the function
\* `${component.name || 'anonymous'}_${propsKey}`: every component made by
\* defineComponent is the function ComponentWrapper, whatever function it wraps
CacheKey(component, props) ==
    [name |-> "ComponentWrapper", propsKey |-> [dataset |-> props.dataset]]
\* shallowEqual(obj1, obj2) for two props objects with the same keys
shallowEqual(obj1, obj2) ==
    obj1.dataset = obj2.dataset /\ obj1.onSelect = obj2.onSelect

\* componentCache.get(cacheKey): the position of the entry, 0 for none
CacheIndex(cache, cacheKey) ==
    IF \E i \in 1..Len(cache) : cache[i].key = cacheKey
    THEN CHOOSE i \in 1..Len(cache) : cache[i].key = cacheKey ELSE 0
\* componentCache.set(cacheKey, { props, instance }): an existing key keeps
\* its place; the instance is noted as the call component(props) that made it
CacheSet(cache, cacheKey, component, props) ==
    IF CacheIndex(cache, cacheKey) # 0
    THEN [cache EXCEPT ![CacheIndex(cache, cacheKey)] =
             [key |-> cacheKey, props |-> props,
              instance |-> [component |-> component, props |-> props]]]
    ELSE Append(cache, [key |-> cacheKey, props |-> props,
                        instance |-> [component |-> component, props |-> props]])

\* a memoizeComponent that never deletes an entry
memoizeComponent_keepAll(m, component, props) ==
    IF CacheIndex(m.cache, CacheKey(component, props)) # 0
         /\ shallowEqual(m.cache[CacheIndex(m.cache, CacheKey(component, props))].props,
                         props)
    THEN LogInfo(m, "cached", component, 0,
                 [props |-> props,
                  instance |-> m.cache[CacheIndex(m.cache,
                                                  CacheKey(component, props))].instance])
    ELSE LogInfo([m EXCEPT !.cache = CacheSet(@, CacheKey(component, props),
                                              component, props)],
                 "create", component, 0,
                 [props |-> props,
                  instance |-> [component |-> component, props |-> props]])

\* memoizeComponent(component, props) on the machine [cache, log]; the event
\* "cached" or "create" carries the instance the call returns
memoizeComponent(m, component, props) ==
    IF CacheIndex(m.cache, CacheKey(component, props)) # 0
         /\ shallowEqual(m.cache[CacheIndex(m.cache, CacheKey(component, props))].props,
                         props)
    THEN LogInfo(m, "cached", component, 0,
                 [props |-> props,
                  instance |-> m.cache[CacheIndex(m.cache,
                                                  CacheKey(component, props))].instance])
    ELSE Bind(LogInfo([m EXCEPT !.cache = CacheSet(@, CacheKey(component, props),
                                                   component, props)],
                      "create", component, 0,
                      [props |-> props,
                       instance |-> [component |-> component, props |-> props]]),
              LAMBDA m1 :
           IF Len(m1.cache) > CacheLimit
           THEN LogInfo([m1 EXCEPT !.cache = Tail(@)], "evict", component, 0,
                        [key |-> m1.cache[1].key])
           ELSE m1)

\* the dataset the application has not passed yet
FreshDataset ==
    IF componentCache = <<>> THEN 1
    ELSE componentCache[Len(componentCache)].props.dataset + 1

\* the application calls MinimaJS.memo(component, props) for one of its two
\* components, ExpensiveChart and SalesTable, both made by defineComponent:
\* with a dataset it has not used yet, or with the dataset of the oldest entry
Memo(component, which, handler) ==
    /\ which = "oldest" => componentCache # <<>>
    /\ which = "fresh" => /\ FreshDataset <= MaxMemoKeys
                          /\ handler = "f"
                          /\ component = "ExpensiveChart"
    /\ \E m \in {memoizeComponent(
                     [cache |-> componentCache, log |-> <<>>], component,
                     [dataset |-> IF which = "fresh" THEN FreshDataset
                                  ELSE componentCache[1].props.dataset,
                      onSelect |-> handler])} :
          /\ componentCache' = m.cache
          /\ log' = m.log
    /\ threw' = FALSE
    /\ last' = [NoLast EXCEPT !.op = "memo"]
    /\ UNCHANGED <<RenderVars, reactive, router>>

NextMemo ==
    \E component \in {"ExpensiveChart", "SalesTable"}, which \in {"fresh", "oldest"},
       handler \in {"f", "g"} : Memo(component, which, handler)

SpecMemo == InitLegacy /\ [][NextMemo]_vars

\* ------------------------------------------------------------- properties
\* The definitions of this section are the vocabulary of the properties:
\* observations of the log and of the state, none of them a step of the program.
\* positions in the log of the last handler
Events(ev, c) == {i \in 1..Len(log) : log[i].ev = ev /\ log[i].comp = c}
\* the steps renderComponent takes for the re-render that starts at log[i]
Segment(i) ==
    {j \in (i + 1)..Len(log) : \A k \in (i + 1)..j : log[k].ev # "render"}
\* component functions entered and not yet left before step i
Depth(i) ==
    Cardinality({j \in 1..(i - 1) : log[j].ev = "enter"})
      - Cardinality({j \in 1..(i - 1) : log[j].ev = "exit"})
\* the value the first useState of the invocation announced at log[i] returned
\* ("mount" or "render", then "enter", then "useState")
FirstValue(i) == log[i + 2].val

\* C1: in the core build, three setter(v => v+1) calls in one click handler
\* of a mounted component arm exactly one flush, and that flush re-renders the
\* component exactly once, with the value the three calls left in the cell.
C1_OneFlushOneRender ==
    build = "core" =>
      /\ (last.op = "click" /\ Len(log) > 0) => armed = 1
      /\ (last.op = "flush" /\ last.clicked) =>
           /\ Cardinality(Events("render", "Counter")) = 1
           /\ \A i \in Events("render", "Counter") :
                 FirstValue(i) = components["Counter"].hooks[1].state

\* C2: a setter call that changes its cell enqueues the instance that owns
\* the cell, whichever component is current when the setter is called.
C2_SetterEnqueuesOwner ==
    \A i \in 1..Len(log) :
       log[i].ev = "setState" =>
          /\ i < Len(log)
          /\ log[i + 1].ev = "schedule"
          /\ log[i + 1].comp = log[i].comp

\* C3: an instance scheduled by a re-render during a flush is not rendered
\* in the rest of that flush; it stays pending for a later flush.
C3_DeferredToNextFlush ==
    last.op = "flush" =>
      \A i \in 1..Len(log) :
         log[i].ev = "schedule" =>
            /\ \A j \in (i + 1)..Len(log) :
                  ~(log[j].ev = "render" /\ log[j].comp = log[i].comp)
            /\ ~threw => (log[i].comp \in Range(renderQueue) /\ armed > 0)

\* C4: a flush re-renders every instance that was pending when it started
\* exactly once and leaves the pending set empty.
C4_FlushRendersAllOnce ==
    last.op = "flush" =>
      /\ \A c \in Range(last.pending) \cap CompIds :
            Cardinality(Events("render", c)) = 1
      /\ renderQueue = <<>>

\* C5: when a component function throws in a scheduled re-render, the
\* exception does not leave the flush and the re-render changes no DOM.
C5_RenderErrorCaught ==
    (last.op = "flush" /\ Events("throw", "bad") # {}) =>
      /\ ~threw
      /\ \A i \in Events("render", "Bad") :
            \A j \in Segment(i) : log[j].ev # "dom"

\* C6: when one pending instance throws during a flush, every other
\* instance pending in that flush is still re-rendered.
C6_SiblingsStillRendered ==
    (last.op = "flush" /\ Events("throw", "bad") # {}) =>
      \A c \in Range(last.pending) \cap CompIds : Events("render", c) # {}

\* C7: an instance that was enqueued and whose DOM left the document before
\* the flush is skipped by the flush: no exception and no DOM mutation for it.
C7_UnmountedSkipped ==
    last.op = "flush" =>
      \A c \in last.detached :
         \A i \in Events("render", c) :
            \A j \in Segment(i) : log[j].ev \notin {"dom", "throw"}

\* C8: two instances of one component function mounted in the same tree have
\* their own cells: when the first starts from the initial value, a setter
\* call made by the first does not change what useState returns in the second.
C8_CellsPerInstance ==
    \A c \in CompIds :
       \A i, j \in Events("mount", c) :
          (i < j /\ FirstValue(i) = 0) => FirstValue(j) = 0

\* C9: an effect function is never invoked while a component function is
\* executing, and no DOM mutation of the pass follows an effect invocation.
C9_EffectsAfterRender ==
    \A i \in 1..Len(log) :
       log[i].ev = "effect" =>
          /\ Depth(i) = 0
          /\ \A j \in (i + 1)..Len(log) : log[j].ev # "dom"

\* C10: when reconciliation takes a mounted instance out of the tree
\* (removed or replaced, itself or below the removed node), the cleanup of
\* each of its effects is called.
C10_CleanupOnUnmount ==
    last.op = "render" =>
      \A u \in last.unmounted :
         \E i \in Events("cleanup", u[1]) : log[i].val = u[2]

\* the useEffect calls of the last handler
EffectCalls == {i \in 1..Len(log) : log[i].ev = "useEffect"}
\* step i of the last handler is the event ev of cell k of component c
IsStep(i, ev, c, k) ==
    i <= Len(log) /\ log[i].ev = ev /\ log[i].comp = c /\ log[i].val = k
\* the call at log[i] passes a deps array and the previous call on the same
\* cell passed one of the same length
Recalled(i) ==
    /\ log[i].info.prev.def
    /\ log[i].info.deps.def
    /\ Len(log[i].info.prev.arr) = Len(log[i].info.deps.arr)
SameDeps(i) == log[i].info.prev.arr = log[i].info.deps.arr

\* C11: when a useEffect call passes the same deps values as the previous call
\* on the same cell, the effect function is not invoked; when a value differs,
\* the cleanup the previous invocation returned (if it returned one) is called
\* and then the effect function is invoked.
C11_EffectDeps ==
    \A i \in EffectCalls :
       Recalled(i) =>
          IF SameDeps(i)
          THEN /\ ~IsStep(i + 1, "effect", log[i].comp, log[i].val)
               /\ ~IsStep(i + 1, "cleanup", log[i].comp, log[i].val)
          ELSE IF log[i].info.had
          THEN /\ IsStep(i + 1, "cleanup", log[i].comp, log[i].val)
               /\ IsStep(i + 2, "effect", log[i].comp, log[i].val)
          ELSE IsStep(i + 1, "effect", log[i].comp, log[i].val)

\* one handler in which Fx is called twice: first with a changed value
\* (cleanup, then effect), then with the same value (nothing invoked)
C11_Witness ==
    \E i, j \in EffectCalls :
       /\ i < j
       /\ log[i].comp = "Fx" /\ log[j].comp = "Fx"
       /\ Recalled(i) /\ ~SameDeps(i) /\ log[i].info.had
       /\ IsStep(i + 1, "cleanup", "Fx", log[i].val)
       /\ IsStep(i + 2, "effect", "Fx", log[i].val)
       /\ Recalled(j) /\ SameDeps(j)

\* the call at log[i] leads to an invocation of the effect function, after the
\* cleanup of the previous invocation if there is one
Invoked(i) ==
    \/ IsStep(i + 1, "effect", log[i].comp, log[i].val)
    \/ /\ IsStep(i + 1, "cleanup", log[i].comp, log[i].val)
       /\ IsStep(i + 2, "effect", log[i].comp, log[i].val)

\* C12: in the full build, every call useEffect(fn) with deps omitted, on the
\* first render of the instance and on every later one, invokes fn.
C12_NoDepsEveryRender ==
    build = "full" =>
       \A i \in EffectCalls : ~log[i].info.deps.def => Invoked(i)

\* the useState calls of the last handler
StateCalls == {i \in 1..Len(log) : log[i].ev = "useState"}
\* the setter calls on cell k of component c before step i of the last handler
SetsBefore(i, c, k) ==
    {j \in 1..(i - 1) : /\ log[j].ev = "setState" /\ log[j].comp = c
                        /\ log[j].info.idx = k}
\* the value the cell read by the useState call at log[i] holds at that time:
\* the one the latest setter call of this handler stored, else the one the
\* cell held when the call was made
Current(i) ==
    LET S == SetsBefore(i, log[i].comp, log[i].info.idx)
    IN IF S = {} THEN log[i].info.stored
       ELSE log[CHOOSE j \in S : \A k \in S : k <= j].val

\* C13: in the full build, a useState call on a cell that an earlier render
\* allocated returns the value the cell holds (the one the setter stored last,
\* or the first initial value), whatever that value is.
C13_StateKept ==
    build = "full" =>
       \A i \in StateCalls : ~log[i].info.fresh => log[i].val = Current(i)

\* the useState call at log[i] is the n-th of its invocation and returns the
\* value of the n-th cell: 0 when it allocates the cell, else what the cell holds
ReadsCell(i, n) ==
    /\ log[i].ev = "useState"
    /\ log[i].info.idx = n
    /\ log[i].val = IF log[i].info.fresh THEN 0 ELSE Current(i)

\* C14: in the core build, the two useState(0) calls of every invocation of
\* Two read two different cells of the instance, and each returns what the
\* setter of its own cell stored last.
C14_TwoCells ==
    build = "core" =>
       \A i \in Events("enter", "Two") :
          ReadsCell(i + 1, 1) /\ ReadsCell(i + 2, 2)

\* a scheduled re-render of Two after setA(1) and setB(2): it reads 1 and 2
C14_Witness ==
    /\ build = "core"
    /\ last.op = "flush"
    /\ \E i \in Events("render", "Two") :
          /\ log[i + 1].ev = "enter"
          /\ log[i + 2].val = 1 /\ log[i + 2].info.stored = 1
          /\ log[i + 3].val = 2 /\ log[i + 3].info.stored = 2

\* the calls of diff that returned in the last handler
Diffs == {i \in 1..Len(log) : log[i].ev = "diffed"}
\* the steps taken inside the call of diff that returned at log[i]
Inside(i) == (log[i].info.from + 1)..(i - 1)

\* C15: in the core build, when diff meets at one position an old and a new
\* VNode of the same component function with different props, the function
\* is invoked again, with the new props.
C15_PropsReinvoke ==
    build = "core" =>
       \A i \in Diffs :
          LET old == log[i].info.old
              new == log[i].info.new
          IN (/\ old.kind = "node" /\ new.kind = "node"
              /\ IsFunction(old.type) /\ old.type = new.type
              /\ old.props # new.props)
             => \E j \in Inside(i) :
                   /\ log[j].ev = "enter"
                   /\ log[j].comp = new.type
                   /\ log[j].info.props = new.props

\* the calls of render() in the last handler
RenderCalls == {i \in 1..Len(log) : log[i].ev = "root"}
\* v is an element whose children are elements with pairwise different keys
KeyedList(v) ==
    /\ v.kind = "node" /\ ~IsFunction(v.type)
    /\ \A i \in 1..Len(v.children) : KeyOf(v.children[i]) # ""
    /\ \A i, j \in 1..Len(v.children) :
          KeyOf(v.children[i]) = KeyOf(v.children[j]) => i = j
KeySet(v) == {KeyOf(v.children[i]) : i \in 1..Len(v.children)}
\* the position of the child with key k
KeyIndex(v, k) == CHOOSE i \in 1..Len(v.children) : KeyOf(v.children[i]) = k
\* new is old with its keyed children in another order
Reordered(old, new) ==
    /\ KeyedList(old) /\ KeyedList(new)
    /\ old.type = new.type
    /\ KeySet(old) = KeySet(new)
    /\ old.children # new.children

\* C16: in the full build, rendering a reordering of a uniquely keyed list
\* ends without an exception, creates no DOM node, and leaves the list
\* element's children in the new key order, each key on the node that
\* rendered it before.
C16_KeyedReorder ==
    build = "full" =>
       \A i \in RenderCalls :
          LET old == log[i].info.old
              new == log[i].info.new
              d0 == log[i].info.nodes
              list == d0[Container].kids[1]
          IN Reordered(old, new) =>
                /\ ~threw
                /\ Len(dom) = Len(d0)
                /\ dom[list].kids =
                      [j \in 1..Len(new.children) |->
                         d0[list].kids[KeyIndex(old, KeyOf(new.children[j]))]]

\* old and new are VNodes of the same kind and tag
SameKind(old, new) ==
    /\ old.kind # "null"
    /\ old.kind = new.kind
    /\ TypeOf(old) = TypeOf(new)

\* C19: in the core build, when diff is given an old and a new VNode of the
\* same kind and tag, the DOM node at that position afterwards is the node
\* that was there before.
C19_SameKindKeepsNode ==
    build = "core" =>
       \A i \in Diffs :
          SameKind(log[i].info.old, log[i].info.new) =>
             /\ log[i].info.before # NoNode
             /\ log[i].info.after = log[i].info.before

\* C20: in the core build, when diff is given an old and a new VNode of
\* different kind or tag, the DOM node at that position afterwards is a node
\* created by this call: not the old node, and not a node that existed before.
C20_OtherKindNewNode ==
    build = "core" =>
       \A i \in Diffs :
          (/\ log[i].info.old.kind # "null" /\ log[i].info.new.kind # "null"
           /\ ~SameKind(log[i].info.old, log[i].info.new))
          => /\ log[i].info.after # log[i].info.before
             /\ log[i].info.after > log[i].info.len

\* the keys of the children of a legacy element, and where a key stands
LKeySet(v) == {v.children[i].key : i \in 1..Len(v.children)}
FirstIndex(v, k) ==
    CHOOSE i \in 1..Len(v.children) :
       /\ v.children[i].key = k
       /\ \A j \in 1..(i - 1) : v.children[j].key # k
\* v is a mounted legacy element whose children all carry a key
LKeyed(v) ==
    /\ v.type = "element"
    /\ \A i \in 1..Len(v.children) : v.children[i].key # ""
UniqueKeys(v) ==
    \A i, j \in 1..Len(v.children) :
       v.children[i].key = v.children[j].key => i = j

\* C17: in the legacy build, after diff has reconciled two lists of uniquely
\* keyed children, the parent's element children stand in the order of the
\* new list: a key of the old list on the node that rendered it, a key that
\* is new on a node created by the call; the nodes of keys that are gone are
\* no longer in the parent.
C17_LegacyKeyedOrder ==
    build = "legacy" =>
       \A i \in RenderCalls :
          LET old == log[i].info.old
              new == log[i].info.new
              d0 == log[i].info.nodes
          IN (/\ LKeyed(old) /\ UniqueKeys(old)
              /\ LKeyed(new) /\ UniqueKeys(new) /\ new.children # <<>>)
             => /\ ~threw
                /\ Len(ElemKids(dom, old.dom)) = Len(new.children)
                /\ \A j \in 1..Len(new.children) :
                      IF new.children[j].key \in LKeySet(old)
                      THEN ElemKids(dom, old.dom)[j] =
                             old.children[FirstIndex(old, new.children[j].key)].dom
                      ELSE ElemKids(dom, old.dom)[j] > Len(d0)
                /\ \A j \in 1..Len(old.children) :
                      old.children[j].key \notin LKeySet(new)
                         => dom[old.children[j].dom].parent = NoNode

\* C18: in the legacy build, when the old children list holds one key twice
\* and the new list holds each key once, diff does not throw and a new child
\* with that key is matched with the first old child that carries it.
C18_FirstDuplicateWins ==
    build = "legacy" =>
       \A i \in RenderCalls :
          LET old == log[i].info.old
              new == log[i].info.new
          IN (/\ LKeyed(old) /\ ~UniqueKeys(old)
              /\ LKeyed(new) /\ UniqueKeys(new) /\ new.children # <<>>)
             => /\ ~threw
                /\ \A j \in 1..Len(new.children) :
                      new.children[j].key \in LKeySet(old)
                         => minimaVNode.children[j].dom =
                              old.children[FirstIndex(old, new.children[j].key)].dom

\* the attributes and listeners of the nodes that d0 holds are the same in d1
SameAttrs(d0, d1) ==
    \A n \in 1..Len(d0) :
       d1[n].attrs = d0[n].attrs /\ d1[n].listeners = d0[n].listeners

RECURSIVE LNodes(_)
\* the VNode objects of a legacy tree
LNodes(v) ==
    IF v.type = "null" THEN {}
    ELSE {v} \cup UNION {LNodes(v.children[i]) : i \in 1..Len(v.children)}

\* C22: in the legacy build, after every call of diff, each VNode of the tree
\* the call returned (the mounted one) has a non-null _dom that is in the
\* document, and each VNode of the tree the call was given as old, which no
\* call writes to again, has a non-null _dom only while that node is still in
\* the document.
C22_DomIffMounted ==
    (build = "legacy" /\ ~threw) =>
       /\ \A v \in LNodes(minimaVNode) : v.dom # NoNode /\ Attached(dom, v.dom)
       /\ \A i \in RenderCalls :
             \A v \in LNodes(log[i].info.old) :
                v.dom # NoNode => Attached(dom, v.dom)

\* C23: mounting or updating an element never writes a DOM attribute or
\* property named key: the key given in props stays in the VNode.
C23_KeyNotRendered ==
    \A n \in 1..Len(dom) : dom[n].attrs["key"] = ""

\* C24: a call of useState or useEffect made while no component function is
\* executing throws, and reads or allocates no hook cell.
C24_OutsideHookThrows ==
    last.op \in {"useState", "useEffect"} =>
       /\ threw
       /\ \A i \in 1..Len(log) : log[i].ev \notin {"useState", "useEffect"}

\* the last handler ended with an exception of the class TypeError
ThrewTypeError ==
    threw /\ \E i \in 1..Len(log) : log[i].ev = "throw" /\ log[i].comp = "TypeError"

\* C25: constructing a VNode throws a TypeError exactly when the tag is
\* neither a string nor a function.
C25_ThrowsIffBadTag ==
    last.op = "construct" =>
       (ThrewTypeError <=> log[1].info.tag.t \notin {"string", "function"})

\* the last handler threw the error of a hook called outside a component
OutsideError ==
    \E i \in 1..Len(log) :
       /\ log[i].ev = "throw"
       /\ log[i].comp \in {"useState: outside component",
                            "useEffect: outside component"}

\* C26: renderToString of a tree with hook-using components does not throw
\* the outside-component error, and leaves the hook cells of every instance
\* known to the renderer as they were: no cell read, written or allocated.
C26_SerializeDetached ==
    last.op = "renderToString" =>
       /\ ~OutsideError
       /\ \A i \in 1..Len(log) :
             log[i].ev \in {"useState", "useEffect", "setState"}
                => ~log[1].info.components[log[i].comp].has
       /\ \A c \in CompIds :
             log[1].info.components[c].has
                => components[c].hooks = log[1].info.components[c].hooks

\* C27: in the legacy build, a read of a computed property returns what its
\* getter yields for the state as it is at the read.
C27_ComputedCurrent ==
    last.op = "get" =>
       log[1].val = Getter(log[1].comp, reactive.target).value

\* the steps of the last navigation that belong to its own target
OfTarget(j, ev) == log[j].ev = ev /\ log[j].comp = log[1].comp
\* guard i has called next() before step j
Passed(i, j) ==
    \E k \in 1..(j - 1) :
       OfTarget(k, "next") /\ log[k].val = i /\ log[k].info.result = ""
\* at step j a guard denies, redirects or throws
Stopped(j) ==
    \/ OfTarget(j, "caught")
    \/ OfTarget(j, "next") /\ log[j].info.result # ""

\* C28: in the legacy router, the target of a navigation is rendered and
\* made the current route only after every registered beforeEach guard has
\* called next(); the guards run one at a time in registration order; and
\* once a guard has called next(false), redirected or thrown, no later guard
\* runs for the target and the target is not rendered.
C28_GuardsGate ==
    last.op = "navigate" =>
       /\ \A j \in 1..Len(log) :
             OfTarget(j, "routed") =>
                \A i \in 1..Len(router.beforeEach) : Passed(i, j)
       /\ \A j, k \in 1..Len(log) :
             (j < k /\ OfTarget(j, "guard") /\ OfTarget(k, "guard"))
                => log[j].val < log[k].val
       /\ \A j \in 1..Len(log) :
             Stopped(j) =>
                \A k \in (j + 1)..Len(log) :
                   ~OfTarget(k, "guard") /\ ~OfTarget(k, "routed")
       /\ router.currentRoute # log[1].info.from =>
             \E j \in 1..Len(log) :
                log[j].ev = "routed" /\ log[j].comp = router.currentRoute

\* C29: in the legacy build, after every call of memoizeComponent the
\* component cache holds at most 100 entries.
C29_CacheBounded == Len(componentCache) <= CacheLimit

\* a call that stored the 101st entry and deleted the oldest one
C29_Witness ==
    /\ last.op = "memo"
    /\ Len(componentCache) = CacheLimit
    /\ \E i \in 1..Len(log) : log[i].ev = "evict"

RECURSIVE Shape(_, _)
\* the subtree under node n as a page shows it: tag, text, attributes and
\* listeners of each node, children in childNodes order
Shape(d, n) ==
    [tag |-> d[n].tag, text |-> d[n].text, attrs |-> d[n].attrs,
     listeners |-> d[n].listeners,
     kids |-> [i \in 1..Len(d[n].kids) |-> Shape(d, d[n].kids[i])]]

\* render(vnode, container) on an empty container of a page just loaded
FreshMount(vnode) ==
    render([Machine EXCEPT !.components = [c \in CompIds |-> NoEntry],
                           !.currentComponent = Null, !.hookIndex = 0,
                           !.renderQueue = <<>>, !.isRendering = FALSE,
                           !.armed = 0, !.dom = InitDom],
           VNull, vnode)

\* C30: in the core build, after every render(v, c) that returns, on a
\* container that earlier render calls have filled, the container's subtree
\* has the same elements, text, attributes and listeners in the same order
\* as a fresh mount of v into an empty container.
C30_SameAsFreshMount ==
    (build = "core" /\ last.op = "render" /\ ~threw /\ minimaVNode # VNull) =>
       Shape(dom, Container) = Shape(FreshMount(minimaVNode).dom, Container)

\* the text the mounted component c shows differs from the state cell it
\* was rendered from (Counter and Fx render h(tag, props, value of cell 1))
Behind(c) ==
    /\ c \in MountedComps(dom, components)
    /\ Len(components[c].hooks) >= 1
    /\ components[c].oldVNode.kind = "node"
    /\ Len(components[c].oldVNode.children) = 1
    /\ components[c].oldVNode.children[1].val # components[c].hooks[1].state

\* C31: whenever a mounted component shows a value other than the one its
\* state cell holds, a later re-render brings the output up to the cell (or
\* the component leaves the document): the output never stays behind for ever.
C31_EventuallyRendered ==
    \A c \in {"Counter", "Fx"} : Behind(c) ~> ~Behind(c)

\* C32: after every flush, whether its re-renders returned or one of them
\* threw, the pending set is empty and no flush is marked as in progress.
C32_IdleAfterFlush ==
    last.op = "flush" => (renderQueue = <<>> /\ ~isRendering)

\* C33: a render call or a flush in which a component function was called,
\* and returned or threw, leaves the current-instance pointer and the hook
\* index with the values they had before it.
C33_ContextRestored ==
    [][(last'.op \in {"render", "flush"} /\ \E i \in 1..Len(log') : log'[i].ev = "enter")
          => (currentComponent' = currentComponent /\ hookIndex' = hookIndex)]_vars

\* C34: in the core build, a render that gives an element a shorter children
\* list than it had does not throw, and leaves under the element the nodes of
\* the children that have a counterpart, in place, and none of the others.
C34_ShorterListRemoves ==
    \A i \in RenderCalls :
       (/\ build = "core"
        /\ last.op = "render"
        /\ log[i].info.old.kind = "node"
        /\ log[i].info.new.kind = "node"
        /\ log[i].info.old.type = "ul"
        /\ log[i].info.new.type = "ul"
        /\ Len(log[i].info.new.children) < Len(log[i].info.old.children))
       => /\ ~threw
          /\ dom[ChildNode(log[i].info.nodes, Container, 1)].kids
               = SubSeq(log[i].info.nodes[ChildNode(log[i].info.nodes, Container, 1)].kids,
                        1, Len(log[i].info.new.children))

\* C35: after a render that returned and reused the element at the root, the
\* element has one click listener, the onClick of the props just rendered,
\* and none when those props have no onClick.
C35_OneListener ==
    \A i \in RenderCalls :
       (/\ last.op = "render" /\ ~threw
        /\ minimaVNode.kind = "node"
        /\ ChildNode(log[i].info.nodes, Container, 1) # NoNode
        /\ ChildNode(dom, Container, 1) = ChildNode(log[i].info.nodes, Container, 1))
       => dom[ChildNode(dom, Container, 1)].listeners
            = {<<"onClick", minimaVNode.props.onClick>>} \ {<<"onClick", "">>}

\* C36: in the legacy batch system a call of schedule(callback) does not run
\* the callback but leaves it pending with a flush requested, and a flush
\* runs every callback that was pending when it started, the ones that share
\* it with a throwing callback included, and leaves the callbacks scheduled
\* while it ran pending for the flush after it.
C36_ScheduledRuns ==
    /\ reactive.pending # <<>> => reactive.scheduled
    /\ last.op \in {"batchUpdates", "set"} =>
          /\ \A i \in 1..Len(log) : log[i].ev # "run"
          /\ \A i \in 1..Len(log) :
                log[i].ev = "schedule" => log[i].comp \in Range(reactive.pending)
    /\ last.op = "frame" =>
          /\ \A k \in 1..Len(last.pending) :
                \E i \in 1..Len(log) :
                   log[i].ev = "run" /\ log[i].comp = last.pending[k] /\ log[i].val = k
          /\ \A i, j \in 1..Len(log) :
                (log[i].ev = "run" /\ log[j].ev = "run" /\ log[i].val = log[j].val)
                   => i = j
          /\ \A i \in 1..Len(log) :
                log[i].ev = "schedule" => log[i].comp \in Range(reactive.pending)

\* a flush that ran the throwing callback with others, one of which
\* scheduled a callback while the flush was running
C36_Witness ==
    /\ last.op = "frame"
    /\ {"thrower", "again", "notify"} \subseteq Range(last.pending)
    /\ last.pending[1] = "thrower"
    /\ reactive.pending = << "a" >>

\* C37: in the legacy component system, once a call of instance.destroy()
\* has returned, no handler calls the instance's onUpdate hook or its
\* onDestroy hook any more.
C37_InertAfterDestroy ==
    [][reactive.returned =>
          \A i \in 1..Len(log') : log'[i].ev \notin {"onUpdate", "onDestroy"}]_vars

\* C38: in the legacy router, the callback that completes the guards of a
\* navigation is invoked at most once for that navigation, so the target of
\* a navigation is rendered at most once, whatever way the guards call next.
C38_CompletedOnce ==
    last.op = "navigate" =>
       \A j, k \in 1..Len(log) :
          (/\ OfTarget(j, "routed") \/ OfTarget(j, "blocked")
           /\ OfTarget(k, "routed") \/ OfTarget(k, "blocked")) => j = k

\* C39: in the legacy build, MinimaJS.memo(component, props) returns an
\* instance that was created by calling that same component with props
\* shallowly equal to the given props.
C39_MemoSameComponent ==
    last.op = "memo" =>
       \A i \in 1..Len(log) :
          log[i].ev \in {"cached", "create"} =>
             /\ log[i].info.instance.component = log[i].comp
             /\ shallowEqual(log[i].info.instance.props, log[i].info.props)

\* C40: in the Full build, useMemo(factory, deps) invokes factory on the
\* first render of the component and on every later render whose deps differ
\* from those of the previous render or are omitted, on no other render, and
\* it always returns the most recent result of factory.
C40_MemoRecomputes ==
    \A i \in 1..Len(log) :
       log[i].ev = "useMemo" =>
          /\ log[i].info.invoked <=> \/ log[i].info.first
                                     \/ ~log[i].info.deps.def
                                     \/ log[i].info.deps # log[i].info.prev
          /\ log[i].info.invoked => log[i].info.value = log[i].info.result
          /\ log[i].info.value # ""
====
